---- MODULE Spec2Model ----
(***************************************************************************)
(* A model of the statement-parsing pipeline of personal-adviser:          *)
(* the DocumentProcessor (on-disk OCR cache, page cache), the geometric    *)
(* table reconstruction and the Bank of America parser's row, amount,      *)
(* account and page-range logic.                                           *)
(*                                                                         *)
(* Coordinates are the normalized 0..1 page coordinates in thousandths.    *)
(* Text is a sequence of words; String.includes is containment of a        *)
(* contiguous word sequence.                                               *)
(***************************************************************************)
EXTENDS Integers, Sequences, FiniteSets, TLC

VARIABLES
    env,        \* module-level configuration of document-processor (read at load)
    disk,       \* .cache/{hash}-{processorId}.json : key -> stored document
    dp,         \* the DocumentProcessor instance: client, processorName, document
    call,       \* the last processDocument call on the instance: arguments, path and result
    succeeded,  \* history: the <<bytes, processorId>> pairs for which processDocument returned true
    world,      \* the inputs of a run: the file contents and the processor IDs callers pass
    pageCache,  \* DocumentProcessor.pageCache: page number -> ProcessedPage
    pageCall,   \* the last processPage / extractUsingTemplate call on the instance
    page,       \* ProcessedPage.textBlocks of the page handed to table reconstruction
    request,    \* the last reconstruction call: variant, boundingConstraints, boundaryOptions
    table,      \* what that call returned (rows hold block indices), with the resolved y1, y2
    parser,     \* a statement parser as constructed, and what its collaborators will do
    result,     \* what parser.process() gave its caller
    tableRow,   \* a reconstructed table row: cells, each a sequence of tokens
    rowType,    \* the table the row was processed for
    transactions, \* the transactions that table's loop pushed for the row
    statement,  \* the accounts' pageReference values and the document's page count
    ranges,     \* the page range each processed account was given, in processing order
    firstPage,  \* the first page: the account summary table's rows, or its text blocks
    accounts,   \* the accountNumberLast4 of the accounts read from the first page
    files,      \* the local file system: the paths that exist
    now,        \* Date.now()
    upload,     \* the last processUploadedFile call: arguments, file operations in order, result
    ocrPages,   \* the OCR document processStatement loaded: the text of each page
    chosen,     \* the bank name processStatement detected and the parser it constructed
    section,    \* an account's page range and the pages of the document it is read from
    processed,  \* the pages processTransactionTables read tables from, in order
    ocrPage,  \* a page of the OCR document: its paragraphs and its tokens
    textBlocks, \* the text blocks extractTextBlocksWithPositions built from it
    tempFs,  \* the files under /tmp: path -> the call whose bytes the file holds (NoCaller: no such file)
    time,  \* Date.now() as concurrent calls read it
    handlers, \* the processUploadedFile calls in flight: where each stands and what it holds
    statementRows,  \* the Statement table: per statement its status, errorMessage and the status writes in order
    bankAccounts,  \* the BankAccount table: the rows in the order they were created
    runs  \* per statement the mutation working on it: which one, where it stands, what it holds

loaderVars == <<env, disk, dp, call, succeeded, world, pageCache, pageCall>>
tableVars  == <<page, request, table>>
parserVars == <<parser, result>>
rowVars    == <<tableRow, rowType, transactions>>
rangeVars  == <<statement, ranges>>
accountVars == <<firstPage, accounts>>
uploadVars == <<files, now, upload>>
detectVars == <<ocrPages, chosen>>
sectionVars == <<section, processed>>
blocksVars == <<ocrPage, textBlocks>>
tempVars == <<tempFs, time, handlers>>
dbVars == <<statementRows, bankAccounts, runs>>

vars == <<env, disk, dp, call, succeeded, world, pageCache, pageCall,
          page, request, table, parser, result,
          tableRow, rowType, transactions, statement, ranges, firstPage, accounts,
          files, now, upload, ocrPages, chosen, section, processed,
          ocrPage, textBlocks,
          tempFs, time, handlers,
          statementRows, bankAccounts, runs>>

exceptLoader  == <<tableVars, parserVars, rowVars, rangeVars, accountVars,
                  uploadVars, detectVars, sectionVars, blocksVars, tempVars, dbVars>>
exceptTable   == <<loaderVars, parserVars, rowVars, rangeVars, accountVars,
                  uploadVars, detectVars, sectionVars, blocksVars, tempVars, dbVars>>
exceptParser  == <<loaderVars, tableVars, rowVars, rangeVars, accountVars,
                  uploadVars, detectVars, sectionVars, blocksVars, tempVars, dbVars>>
exceptRow     == <<loaderVars, tableVars, parserVars, rangeVars, accountVars,
                  uploadVars, detectVars, sectionVars, blocksVars, tempVars, dbVars>>
exceptRange   == <<loaderVars, tableVars, parserVars, rowVars, accountVars,
                  uploadVars, detectVars, sectionVars, blocksVars, tempVars, dbVars>>
exceptAccount == <<loaderVars, tableVars, parserVars, rowVars, rangeVars,
                  uploadVars, detectVars, sectionVars, blocksVars, tempVars, dbVars>>
exceptUpload  == <<loaderVars, tableVars, parserVars, rowVars, rangeVars, accountVars,
                  detectVars, sectionVars, blocksVars, tempVars, dbVars>>
exceptDetect  == <<loaderVars, tableVars, parserVars, rowVars, rangeVars, accountVars,
                  uploadVars, sectionVars, blocksVars, tempVars, dbVars>>
exceptSection == <<loaderVars, tableVars, parserVars, rowVars, rangeVars, accountVars,
                  uploadVars, detectVars, blocksVars, tempVars, dbVars>>
exceptBlocks == <<loaderVars, tableVars, parserVars, rowVars, rangeVars, accountVars, uploadVars, detectVars, sectionVars, tempVars, dbVars>>
exceptTemp == <<loaderVars, tableVars, parserVars, rowVars, rangeVars, accountVars, uploadVars, detectVars, sectionVars, blocksVars, dbVars>>
exceptDb == <<loaderVars, tableVars, parserVars, rowVars, rangeVars, accountVars, uploadVars, detectVars, sectionVars, blocksVars, tempVars>>

-----------------------------------------------------------------------------
(* Bounds *)

NumContents == 2          \* distinct file contents
MaxBlocks == 4            \* text blocks on a page with anchors
MaxClusterBlocks == 4     \* text blocks on a page given to row clustering alone
MaxCells == 3             \* cells in a table row
MaxAccounts == 3          \* accounts of a statement
MaxSummaryRows == 2       \* rows of the account summary table
MaxTextBlocks == 2        \* text blocks of the first page read for an account number
MaxPageNo == 2            \* pages of the longest document
MaxStamp == 2             \* the last millisecond of Date.now()
MaxPageLines == 2         \* lines of text on a page of an OCR document
MaxDocPages == 2          \* pages of an OCR document
MaxSectionPages == 3      \* pages of a document with account sections
MaxUnits == 2             \* paragraphs, and tokens, of an OCR page
MaxCalls == 2           \* mutations on one statement: the upload, then process calls

-----------------------------------------------------------------------------
(* DocumentProcessor.processDocument *)

Contents == 1..NumContents
Pids     == {"ocr", "form"}
NoPid    == "none"

Hash(bytes) == bytes + 100          \* md5 of the content: injective on Contents

NoDoc == [content |-> 0, by |-> NoPid]

\* What the external service returns for a request naming processor `name`.
OcrDocument(bytes, name) == [content |-> bytes, by |-> name]

Keys == {<<Hash(b), p>> : b \in Contents, p \in Pids}

CacheFile(hash, pid) == <<hash, pid>>

NewDocumentProcessor ==
    [client |-> FALSE, processorName |-> NoPid, document |-> NoDoc]

\* initDocumentAiClient(processorId) when documentAiAvailable: throws on missing
\* configuration; creates the client (and processorName) only when there is none yet.
InitDocumentAiClient(d, processorId) ==
    IF ~env.config THEN [threw |-> TRUE, d |-> d]
    ELSE IF ~d.client
         THEN IF ~env.creds
              THEN [threw |-> TRUE, d |-> [d EXCEPT !.client = FALSE, !.processorName = NoPid]]
              ELSE [threw |-> FALSE,
                    d |-> [d EXCEPT !.client = TRUE, !.processorName = processorId]]
         ELSE [threw |-> FALSE, d |-> d]

\* "Try to load from cache if exists": a read or parse error is caught and leaves null.
\* (The variant that never finds an entry.)
LoadFromCache_Never(dsk, key, io) == NoDoc

LoadFromCache(dsk, key, io) ==
    IF dsk[key] # NoDoc /\ io.cacheRead THEN dsk[key] ELSE NoDoc

\* "Save to cache for future use": a write error is caught and logged.
\* (The variant that lets the write error escape.)
SaveToCache_Rethrows(dsk, key, doc, io) ==
    IF io.cacheWrite THEN [threw |-> FALSE, disk |-> [dsk EXCEPT ![key] = doc]]
                     ELSE [threw |-> TRUE, disk |-> dsk]

SaveToCache(dsk, key, doc, io) ==
    IF io.cacheWrite THEN [threw |-> FALSE, disk |-> [dsk EXCEPT ![key] = doc]]
                     ELSE [threw |-> FALSE, disk |-> dsk]

\* The catch-all of processDocument: log and return false.
\* (The variant without the catch.)
CatchAll_Rethrows(t) == [ret |-> FALSE, raised |-> t.threw]

CatchAll(t) == [ret |-> IF t.threw THEN FALSE ELSE t.ret, raised |-> FALSE]

\* The try block of processDocument; threw = TRUE is an exception reaching the catch.
\* io: the outcomes of the environment, [file, cacheRead, ocr, cacheWrite].
ProcessDocumentTry(d, dsk, bytes, processorId, io) ==
    LET actual == IF processorId # NoPid THEN processorId ELSE env.defaultPid
        end(threw, ret, dd, dk, n, how, re) ==
            [threw |-> threw, ret |-> ret, d |-> dd, disk |-> dk, ocrCalls |-> n,
             how |-> how, readError |-> re]
    IN
    IF actual = NoPid THEN end(FALSE, FALSE, d, dsk, 0, "nopid", FALSE)
    ELSE IF ~io.file THEN end(TRUE, FALSE, d, dsk, 0, "fileError", FALSE)
    ELSE
      LET key    == CacheFile(Hash(bytes), actual)
          cached == LoadFromCache(dsk, key, io)
          re     == dsk[key] # NoDoc /\ ~io.cacheRead
      IN
      IF cached # NoDoc
      THEN end(FALSE, TRUE, [d EXCEPT !.document = cached], dsk, 0, "cacheHit", FALSE)
      ELSE
        LET init == InitDocumentAiClient(d, actual)
            d2   == init.d
        IN
        IF init.threw THEN end(TRUE, FALSE, d2, dsk, 0, "initError", re)
        ELSE IF d2.processorName = NoPid THEN end(FALSE, FALSE, d2, dsk, 0, "initError", re)
        ELSE IF io.ocr = "throws" THEN end(TRUE, FALSE, d2, dsk, 1, "ocrThrew", re)
        ELSE IF io.ocr = "nodoc" THEN end(FALSE, FALSE, d2, dsk, 1, "noDocument", re)
        ELSE
          LET doc == OcrDocument(bytes, d2.processorName)
              d3  == [d2 EXCEPT !.document = doc]
              save == SaveToCache(dsk, key, doc, io)
          IN end(save.threw, TRUE, d3, save.disk, 1,
                 IF io.cacheWrite THEN "ocrStored" ELSE "ocrNotStored", re)

\* processDocument: the availability check, then the try block under its catch-all.
ProcessDocumentResult(d, dsk, bytes, processorId, io) ==
    LET actual == IF processorId # NoPid THEN processorId ELSE env.defaultPid IN
    IF ~env.available
    THEN [ret |-> FALSE, raised |-> FALSE, d |-> d, disk |-> dsk, pid |-> actual,
          ocrCalls |-> 0, how |-> "unavailable", readError |-> FALSE]
    ELSE LET t == ProcessDocumentTry(d, dsk, bytes, processorId, io)
         IN  [ret |-> CatchAll(t).ret, raised |-> CatchAll(t).raised, d |-> t.d,
              disk |-> t.disk, pid |-> actual, ocrCalls |-> t.ocrCalls, how |-> t.how,
              readError |-> t.readError]

\* The environment's outcomes of one call: only those the call can consult differ.
IoOutcomes ==
    {io \in [file : BOOLEAN, cacheRead : BOOLEAN, ocr : {"doc", "nodoc", "throws"},
             cacheWrite : BOOLEAN] :
        /\ (~io.file => io.cacheRead /\ io.ocr = "doc")
        /\ (io.ocr # "doc" => io.cacheWrite)
        /\ (~io.file => io.cacheWrite)}

NoCall == [ret |-> FALSE, raised |-> FALSE, pid |-> NoPid, bytes |-> 0, ocrCalls |-> 0,
           how |-> "none", readError |-> FALSE, entry |-> FALSE, before |-> FALSE]

\* One call of processDocument on the instance; call records what the caller and
\* the environment could observe of it.
ProcessDocument(bytes, processorId, io) ==
    LET r == ProcessDocumentResult(dp, disk, bytes, processorId, io) IN
    /\ dp' = r.d
    /\ disk' = r.disk
    /\ call' = [ret |-> r.ret, raised |-> r.raised, pid |-> r.pid, bytes |-> bytes,
                ocrCalls |-> r.ocrCalls, how |-> r.how, readError |-> r.readError,
                entry |-> (r.pid # NoPid /\ disk[CacheFile(Hash(bytes),
                              IF r.pid = NoPid THEN "ocr" ELSE r.pid)] # NoDoc),
                before |-> (<<bytes, r.pid>> \in succeeded)]
    /\ succeeded' = IF r.ret /\ ~r.raised THEN succeeded \cup {<<bytes, r.pid>>}
                    ELSE succeeded
    /\ UNCHANGED <<env, world, pageCache, pageCall, exceptLoader>>

\* Pages of the document with the given content: documents differ in length,
\* and one has no pages at all
PageCountOf(content) ==
    IF content = 1 THEN MaxPageNo ELSE IF content = 2 THEN 1 ELSE 0

TemplateIds == {"date-extraction", "account-extraction"}

NoExtraction == [of |-> 0, page |-> 0, template |-> "none"]

\* What the pattern scan of extractUsingTemplate finds: it is a function of the
\* page's text blocks and the template's patterns
Scan(pg, templateId) == [of |-> pg.of, page |-> pg.pageNumber, template |-> templateId]

NullPage == [pageNumber |-> 0, of |-> 0, extractedData |-> [t \in TemplateIds |-> NoExtraction]]

\* The ProcessedPage processPage builds from page pageNumber of the document
BuildPage(document, pageNumber) ==
    [pageNumber |-> pageNumber, of |-> document.content,
     extractedData |-> [t \in TemplateIds |-> NoExtraction]]

\* new Map()
EmptyPageCache == [n \in 1..MaxPageNo |-> NullPage]

\* pageCache.get(n): NullPage stands for undefined
CacheGet(cache, n) == IF n \in DOMAIN cache THEN cache[n] ELSE NullPage

\* processPage
\* (The variant that looks in the cache before it checks the page bounds.)
ProcessPageResult_CacheFirst(d, cache, pageNumber) ==
    IF CacheGet(cache, pageNumber) # NullPage
    THEN [ret |-> cache[pageNumber], cache |-> cache, built |-> FALSE]
    ELSE IF d.document = NoDoc \/ PageCountOf(d.document.content) = 0
    THEN [ret |-> NullPage, cache |-> cache, built |-> FALSE]
    ELSE IF pageNumber < 1 \/ pageNumber > PageCountOf(d.document.content)
    THEN [ret |-> NullPage, cache |-> cache, built |-> FALSE]
    ELSE LET processedPage == BuildPage(d.document, pageNumber)
         IN  [ret |-> processedPage, cache |-> [cache EXCEPT ![pageNumber] = processedPage],
              built |-> TRUE]

ProcessPageResult(d, cache, pageNumber) ==
    IF d.document = NoDoc \/ PageCountOf(d.document.content) = 0
    THEN [ret |-> NullPage, cache |-> cache, built |-> FALSE]
    ELSE IF pageNumber < 1 \/ pageNumber > PageCountOf(d.document.content)
    THEN [ret |-> NullPage, cache |-> cache, built |-> FALSE]
    ELSE IF CacheGet(cache, pageNumber) # NullPage
    THEN [ret |-> cache[pageNumber], cache |-> cache, built |-> FALSE]
    ELSE LET processedPage == BuildPage(d.document, pageNumber)
         IN  [ret |-> processedPage, cache |-> [cache EXCEPT ![pageNumber] = processedPage],
              built |-> TRUE]

\* extractUsingTemplate: ret = NoExtraction stands for null
ExtractUsingTemplateResult(d, cache, pageNumber, templateId) ==
    LET cached == CacheGet(cache, pageNumber)
        pp     == ProcessPageResult(d, cache, pageNumber)
        pg     == IF cached # NullPage THEN cached ELSE pp.ret
        cache1 == IF cached # NullPage THEN cache ELSE pp.cache
        built  == cached = NullPage /\ pp.built
    IN  IF pg = NullPage
        THEN [ret |-> NoExtraction, cache |-> cache1, built |-> built, scanned |-> FALSE]
        ELSE IF pg.extractedData[templateId] # NoExtraction
        THEN [ret |-> pg.extractedData[templateId], cache |-> cache1, built |-> built,
              scanned |-> FALSE]
        ELSE LET results == Scan(pg, templateId)
             IN  [ret |-> results,
                  cache |-> [cache1 EXCEPT ![pageNumber].extractedData[templateId] = results],
                  built |-> built, scanned |-> TRUE]

NoPageCall ==
    [op |-> "none", pageNumber |-> 0, template |-> "none", document |-> 0,
     before |-> NullPage, page |-> NullPage, extraction |-> NoExtraction,
     built |-> FALSE, scanned |-> FALSE, cacheChanged |-> FALSE]

\* One call of processPage(pageNumber); pageCall records the document loaded at
\* the call, the cache entry before it and what the call returned
ProcessPage(pageNumber) ==
    LET r == ProcessPageResult(dp, pageCache, pageNumber) IN
    /\ pageCache' = r.cache
    /\ pageCall' = [op |-> "processPage", pageNumber |-> pageNumber, template |-> "none",
                    document |-> dp.document.content,
                    before |-> CacheGet(pageCache, pageNumber), page |-> r.ret,
                    extraction |-> NoExtraction, built |-> r.built, scanned |-> FALSE,
                    cacheChanged |-> (r.cache # pageCache)]
    /\ UNCHANGED <<env, disk, dp, call, succeeded, world, exceptLoader>>

\* One call of extractUsingTemplate(pageNumber, template)
ExtractUsingTemplate(pageNumber, templateId) ==
    LET r == ExtractUsingTemplateResult(dp, pageCache, pageNumber, templateId) IN
    /\ pageCache' = r.cache
    /\ pageCall' = [op |-> "extractUsingTemplate", pageNumber |-> pageNumber,
                    template |-> templateId, document |-> dp.document.content,
                    before |-> CacheGet(pageCache, pageNumber),
                    page |-> CacheGet(r.cache, pageNumber),
                    extraction |-> r.ret, built |-> r.built, scanned |-> r.scanned,
                    cacheChanged |-> (r.cache # pageCache)]
    /\ UNCHANGED <<env, disk, dp, call, succeeded, world, exceptLoader>>

\* clearPageCache(pageNumber)
ClearPageCache(pageNumber) ==
    /\ CacheGet(pageCache, pageNumber) # NullPage
    /\ pageCache' = [pageCache EXCEPT ![pageNumber] = NullPage]
    /\ pageCall' = NoPageCall
    /\ UNCHANGED <<env, disk, dp, call, succeeded, world, exceptLoader>>

\* clearAllCaches()
ClearAllCaches ==
    /\ pageCache # EmptyPageCache
    /\ pageCache' = EmptyPageCache
    /\ pageCall' = NoPageCall
    /\ UNCHANGED <<env, disk, dp, call, succeeded, world, exceptLoader>>

\* new DocumentProcessor(): a fresh instance; the disk cache is kept.
Construct ==
    /\ call # NoCall
    /\ dp' = NewDocumentProcessor
    /\ call' = NoCall
    /\ pageCache' = EmptyPageCache
    /\ pageCall' = NoPageCall
    /\ UNCHANGED <<env, disk, succeeded, world, exceptLoader>>

\* A run uses several files with one processor ID, or one file with several.
Worlds == {[contents |-> Contents, pids |-> {"ocr"}],
           [contents |-> {1}, pids |-> Pids]}

Envs == [available : BOOLEAN, config : BOOLEAN, creds : BOOLEAN, defaultPid : {NoPid, "ocr"}]

-----------------------------------------------------------------------------
(* Text: String.includes, toLowerCase and join(' ') on word sequences *)

LowerWord(w) ==
    CASE w = "Deposits" -> "deposits"
      [] w = "Total"    -> "total"
      [] w = "Date"     -> "date"
      [] w = "Account"  -> "account"
      [] w = "Number"   -> "number"
      [] w = "Page"     -> "page"
      [] w = "Details"  -> "details"
      [] w = "Ending"   -> "ending"
      [] w = "Your"     -> "your"
      [] w = "Combined" -> "combined"
      [] w = "Adv"      -> "adv"
      [] w = "Plus"     -> "plus"
      [] w = "Banking"  -> "banking"
      [] w = "Savings"  -> "savings"
      [] w = "Bank"     -> "bank"
      [] w = "America"  -> "america"
      [] w = "Chase"    -> "chase"
      [] w = "Wells"    -> "wells"
      [] w = "Fargo"    -> "fargo"
      [] w = "Citibank" -> "citibank"
      [] w = "Capital"  -> "capital"
      [] w = "One"      -> "one"
      [] w = "Statement" -> "statement"
      [] OTHER          -> w

ToLowerCase(t) == [i \in 1..Len(t) |-> LowerWord(t[i])]

\* t.includes(p)
Includes(t, p) ==
    \E i \in 0..(Len(t) - Len(p)) : \A k \in 1..Len(p) : t[i + k] = p[k]

RECURSIVE Join(_)
\* texts.join(' ')
Join(texts) == IF texts = <<>> THEN <<>> ELSE Head(texts) \o Join(Tail(texts))

-----------------------------------------------------------------------------
(* Geometric table reconstruction (BankOfAmericaStatementParser) *)

RowGap == 20        \* 0.02 of the page height, in thousandths

NoY == -1           \* an undefined y1 / y2

\* Twice the vertical centre (y1 + y2) / 2 of a block, and twice its horizontal centre.
CenterY2(b) == b.y1 + b.y2
CenterX2(b) == b.x1 + b.x2

\* A coordinate that may be an average: num / den.
Exact(y)  == [num |-> y, den |-> 1]
NoBound   == Exact(NoY)

RECURSIVE InsertBy(_, _, _)
\* Array.prototype.sort is stable: i goes after every element whose key is not larger.
InsertBy(sorted, i, key) ==
    IF sorted = <<>> THEN <<i>>
    ELSE IF key[i] < key[Head(sorted)]
         THEN <<i>> \o sorted
         ELSE <<Head(sorted)>> \o InsertBy(Tail(sorted), i, key)

RECURSIVE SortBy(_, _)
\* The indices idx sorted by key[i], ascending.
SortBy(idx, key) ==
    IF idx = <<>> THEN <<>>
    ELSE InsertBy(SortBy(SubSeq(idx, 1, Len(idx) - 1), key), idx[Len(idx)], key)

CentersY2(blocks) == [i \in 1..Len(blocks) |-> CenterY2(blocks[i])]
CentersX2(blocks) == [i \in 1..Len(blocks) |-> CenterX2(blocks[i])]
Tops(blocks)      == [i \in 1..Len(blocks) |-> blocks[i].y1]
Bottoms(blocks)   == [i \in 1..Len(blocks) |-> blocks[i].y2]

\* "If this block is significantly below the last one, start a new row"
\* (The variant that already breaks at a gap of exactly 0.02.)
StartsNewRow_AtGap(lastY2, centerY) == lastY2 >= 0 /\ centerY - lastY2 >= 2 * RowGap

StartsNewRow(lastY2, centerY) == lastY2 >= 0 /\ centerY - lastY2 > 2 * RowGap

RECURSIVE GroupLoop(_, _, _, _, _)
\* The loop "Group blocks into rows based on y-position"; lastY2 is twice lastY.
GroupLoop(sorted, blocks, rowGroups, currentRow, lastY2) ==
    IF sorted = <<>>
    THEN IF currentRow # <<>> THEN Append(rowGroups, currentRow) ELSE rowGroups
    ELSE LET i       == Head(sorted)
             centerY == CenterY2(blocks[i])
             break   == StartsNewRow(lastY2, centerY)
         IN  IF break /\ currentRow # <<>>
             THEN GroupLoop(Tail(sorted), blocks, Append(rowGroups, currentRow), <<i>>, centerY)
             ELSE GroupLoop(Tail(sorted), blocks, rowGroups, Append(currentRow, i), centerY)

\* rowGroups of the blocks idx: rows of block indices, top to bottom.
GroupRows(idx, blocks) ==
    GroupLoop(SortBy(idx, CentersY2(blocks)), blocks, <<>>, <<>>, -2)

RECURSIVE SumOf(_, _)
SumOf(row, val) == IF row = <<>> THEN 0 ELSE val[Head(row)] + SumOf(Tail(row), val)

\* avgY1 and avgY2 of a row
AvgY1(row, blocks) == [num |-> SumOf(row, Tops(blocks)), den |-> Len(row)]
AvgY2(row, blocks) == [num |-> SumOf(row, Bottoms(blocks)), den |-> Len(row)]

\* c2 / (2 n) compared with the bound, per boundary mode
\* (The variant that ignores the top boundary mode.)
TopCondition_AlwaysInclusive(c2, n, bound, mode) ==
    bound = NoBound \/ c2 * bound.den >= bound.num * 2 * n

TopCondition(c2, n, bound, mode) ==
    \/ bound = NoBound
    \/ IF mode = "inclusive" THEN c2 * bound.den >= bound.num * 2 * n
                             ELSE c2 * bound.den >  bound.num * 2 * n

BottomCondition(c2, n, bound, mode) ==
    \/ bound = NoBound
    \/ IF mode = "inclusive" THEN c2 * bound.den <= bound.num * 2 * n
                             ELSE c2 * bound.den <  bound.num * 2 * n

\* The texts of a row's blocks, in the row's order
RowTexts(row, blocks) == [k \in 1..Len(row) |-> blocks[row[k]].text]

RowText(row, blocks) == Join(RowTexts(row, blocks))

\* "For each row, sort blocks from left to right"
SortRow(row, blocks) == SortBy(row, CentersX2(blocks))

\* A result and, with it, the y1, y2 and rowGroups the call worked with
NullTable == [kind |-> "null", rows |-> <<>>, y1 |-> NoBound, y2 |-> NoBound, rowGroups |-> <<>>]

Table(rows, y1, y2, rowGroups) ==
    [kind |-> "table", rows |-> rows, y1 |-> y1, y2 |-> y2, rowGroups |-> rowGroups]

HeaderKeywords == <<<<"date">>, <<"description">>, <<"transaction", "description">>, <<"amount">>>>

\* matchCount of the header check on the anchor row and the row after it
HeaderMatchCount(currentRowText, nextRowText) ==
    Cardinality({k \in 1..Len(HeaderKeywords) : Includes(nextRowText, HeaderKeywords[k])})
  + Cardinality({k \in 1..Len(HeaderKeywords) : Includes(currentRowText, HeaderKeywords[k])})

\* Does row i hold the top anchor, followed by a row that makes the header check pass?
AcceptsTopAnchor(rowGroups, blocks, i, topAnchor) ==
    /\ Includes(ToLowerCase(RowText(rowGroups[i], blocks)), ToLowerCase(topAnchor))
    /\ i < Len(rowGroups)
    /\ HeaderMatchCount(ToLowerCase(RowText(rowGroups[i], blocks)),
                        ToLowerCase(RowText(rowGroups[i + 1], blocks))) >= 3

\* anchorRowIndex of the top anchor, 1-based; 0 when none is accepted
TopAnchorRowIndex(rowGroups, blocks, topAnchor) ==
    LET hits == {i \in 1..Len(rowGroups) : AcceptsTopAnchor(rowGroups, blocks, i, topAnchor)}
    IN  IF hits = {} THEN 0 ELSE CHOOSE i \in hits : \A j \in hits : i <= j

\* anchorRowIndex of the bottom anchor (a case-sensitive match), 1-based; 0 when none
BottomAnchorRowIndex(rowGroups, blocks, bottomAnchor) ==
    LET hits == {i \in 1..Len(rowGroups) : Includes(RowText(rowGroups[i], blocks), bottomAnchor)}
    IN  IF hits = {} THEN 0 ELSE CHOOSE i \in hits : \A j \in hits : i <= j

\* What is returned when no row is accepted as the top anchor
\* (The variant that returns an empty rows array.)
NoTopAnchor_EmptyTable == Table(<<>>, NoBound, NoBound, <<>>)

NoTopAnchor == NullTable

\* extractFullTableDataForTransactions on the blocks of the page.
\* The top boundary is read from rowGroups[anchorRowIndex - 1] (0-based), the row
\* before the anchor row; with the anchor in the first row that row is undefined,
\* the loop over it throws and the catch returns null.
ExtractFullTableDataForTransactions(blocks, req) ==
    LET rowGroups == GroupRows([i \in 1..Len(blocks) |-> i], blocks)
        topIdx    == TopAnchorRowIndex(rowGroups, blocks, req.topAnchor)
        botIdx    == BottomAnchorRowIndex(rowGroups, blocks, req.bottomAnchor)
        y1 == IF req.topAnchor = <<>> THEN (IF req.y1 = NoY THEN NoBound ELSE Exact(req.y1))
              ELSE IF topIdx <= 1 THEN NoBound
              ELSE IF req.includeAnchors THEN AvgY1(rowGroups[topIdx - 1], blocks)
                                         ELSE AvgY2(rowGroups[topIdx - 1], blocks)
        y2 == IF req.bottomAnchor = <<>> THEN (IF req.y2 = NoY THEN NoBound ELSE Exact(req.y2))
              ELSE IF botIdx = 0 THEN NoBound
              ELSE IF req.includeAnchors THEN AvgY2(rowGroups[botIdx], blocks)
                                         ELSE AvgY1(rowGroups[botIdx], blocks)
        keep(row) == /\ TopCondition(SumOf(row, CentersY2(blocks)), Len(row), y1, req.topMode)
                     /\ BottomCondition(SumOf(row, CentersY2(blocks)), Len(row), y2, req.bottomMode)
        filtered  == SelectSeq(rowGroups, keep)
    IN
    IF req.topAnchor # <<>> /\ topIdx = 0 THEN NoTopAnchor
    ELSE IF req.topAnchor # <<>> /\ topIdx = 1 THEN NullTable
    ELSE IF req.bottomAnchor # <<>> /\ botIdx = 0 THEN NullTable
    ELSE Table([k \in 1..Len(filtered) |-> SortRow(filtered[k], blocks)], y1, y2, rowGroups)

\* The first block (in page order) whose text includes the anchor; 0 when none
FindBlock(blocks, anchor) ==
    LET hits == {i \in 1..Len(blocks) : Includes(blocks[i].text, anchor)}
    IN  IF hits = {} THEN 0 ELSE CHOOSE i \in hits : \A j \in hits : i <= j

MinCells == 2       \* "Skip rows with too few blocks" of extractFullTableData

\* extractFullTableData on the blocks of the page: an anchor that is not found
\* leaves its boundary as given; blocks are filtered before they are grouped.
ExtractFullTableData(blocks, req) ==
    LET topBlock == FindBlock(blocks, req.topAnchor)
        botBlock == FindBlock(blocks, req.bottomAnchor)
        y1 == IF req.topAnchor # <<>> /\ topBlock # 0
              THEN Exact(IF req.includeAnchors THEN blocks[topBlock].y1 ELSE blocks[topBlock].y2)
              ELSE IF req.y1 = NoY THEN NoBound ELSE Exact(req.y1)
        y2 == IF req.bottomAnchor # <<>> /\ botBlock # 0
              THEN Exact(IF req.includeAnchors THEN blocks[botBlock].y2 ELSE blocks[botBlock].y1)
              ELSE IF req.y2 = NoY THEN NoBound ELSE Exact(req.y2)
        keep(i) == /\ TopCondition(CenterY2(blocks[i]), 1, y1, req.topMode)
                   /\ BottomCondition(CenterY2(blocks[i]), 1, y2, req.bottomMode)
        filteredBlocks == SelectSeq([i \in 1..Len(blocks) |-> i], keep)
        rowGroups == GroupRows(filteredBlocks, blocks)
        enough(row) == Len(row) >= MinCells
        kept == SelectSeq(rowGroups, enough)
    IN  Table([k \in 1..Len(kept) |-> SortRow(kept[k], blocks)], y1, y2, rowGroups)

-----------------------------------------------------------------------------
(* The arrays of a reconstruction call *)

\* A variable names an array and an array holds blocks: two variables may name
\* the same array, and Array.prototype.sort orders the array it is called on.
ArrayNames == {"page.textBlocks", "filteredBlocks", "sortedBlocks"}

\* On entry the page's textBlocks is the only array
HeapOf(blocks) ==
    [names  |-> [n \in ArrayNames |-> IF n = "page.textBlocks" THEN 1 ELSE 0],
     arrays |-> <<blocks>>]

\* to = <a new array holding items>
NewArray(h, to, items) ==
    [names |-> [h.names EXCEPT ![to] = Len(h.arrays) + 1], arrays |-> Append(h.arrays, items)]

ArrayOf(h, name) == h.arrays[h.names[name]]

\* to = [...from]
\* (The variant without the spread: to = from, the same array under a second name.)
Spread_SameArray(h, from, to) == [h EXCEPT !.names[to] = h.names[from]]

Spread(h, from, to) == NewArray(h, to, ArrayOf(h, from))

\* The blocks in ascending order of their vertical centre
SortedByCentreY(items) ==
    [k \in 1..Len(items) |-> items[SortBy([i \in 1..Len(items) |-> i], CentersY2(items))[k]]]

\* name.sort((a, b) => centreY(a) - centreY(b))
SortArray(h, name) == [h EXCEPT !.arrays[h.names[name]] = SortedByCentreY(ArrayOf(h, name))]

\* filteredBlocks = filteredBlocks.filter(...): the blocks the row groups were built from
FilterArray(h, name, blocks, rowGroups) ==
    NewArray(h, name,
             SelectSeq(blocks, LAMBDA b : \E r \in DOMAIN rowGroups :
                                               \E c \in DOMAIN rowGroups[r] : blocks[rowGroups[r][c]] = b))

\* The arrays when the call returns what it returned
ArraysAfter(blocks, req, returned) ==
    IF req.variant = "transactions"
    THEN SortArray(Spread(HeapOf(blocks), "page.textBlocks", "sortedBlocks"), "sortedBlocks")
    ELSE SortArray(
           Spread(IF returned.y1 # NoBound \/ returned.y2 # NoBound
                  THEN FilterArray(Spread(HeapOf(blocks), "page.textBlocks", "filteredBlocks"),
                                   "filteredBlocks", blocks, returned.rowGroups)
                  ELSE Spread(HeapOf(blocks), "page.textBlocks", "filteredBlocks"),
                  "filteredBlocks", "sortedBlocks"),
           "sortedBlocks")

\* page.textBlocks of the cached page when the call returns
TextBlocksAfter(blocks, req, returned) == ArrayOf(ArraysAfter(blocks, req, returned), "page.textBlocks")

-----------------------------------------------------------------------------
(* Pages and requests for table reconstruction *)

Block(text, y1, y2, x) == [text |-> text, y1 |-> y1, y2 |-> y2, x1 |-> x, x2 |-> x]

TopAnchorPhrase    == <<"Deposits", "additions">>
BottomAnchorPhrase == <<"Total">>

\* A section title in running text, a tall block above the table, the section
\* title and a block beside it, the column header, two cells of one data row
\* and the total line.
BlockPool ==
    << Block(<<"deposits", "additions">>, 20, 30, 100),
       Block(<<"x">>, 45, 105, 100),
       Block(<<"Deposits", "additions">>, 100, 110, 100),
       Block(<<"continued">>, 95, 115, 800),
       Block(<<"Date", "description", "amount">>, 130, 140, 100),
       Block(<<"9.99">>, 160, 170, 800),
       Block(<<"01/02">>, 150, 180, 100),
       Block(<<"Total", "9.99">>, 190, 200, 100) >>

Injective(f) == \A i, j \in DOMAIN f : f[i] = f[j] => i = j

\* Pages of up to max distinct blocks of the pool, in any order
PagesOf(pool, max) ==
    {[i \in DOMAIN f |-> pool[f[i]]] :
        f \in {g \in UNION {[1..n -> 1..Len(pool)] : n \in 0..max} : Injective(g)}}

Request(variant, top, bottom, y1, y2, topMode, bottomMode, includeAnchors) ==
    [variant |-> variant, topAnchor |-> top, bottomAnchor |-> bottom, y1 |-> y1, y2 |-> y2,
     topMode |-> topMode, bottomMode |-> bottomMode, includeAnchors |-> includeAnchors]

NoRequest == Request("none", <<>>, <<>>, NoY, NoY, "inclusive", "inclusive", FALSE)

Unconstrained(variant) ==
    Request(variant, <<>>, <<>>, NoY, NoY, "inclusive", "inclusive", FALSE)

Variants == {"table", "transactions"}

\* Both anchors, the top anchor alone, or the coordinates given directly
Requests ==
    {Request(v, c[1], c[2], c[3], c[4], m[1], m[2], a) :
        v \in Variants,
        c \in {<<TopAnchorPhrase, BottomAnchorPhrase, NoY, NoY>>,
               <<TopAnchorPhrase, <<>>, NoY, NoY>>,
               <<<<>>, <<>>, 105, 165>>},
        m \in {<<"inclusive", "inclusive">>, <<"exclusive", "exclusive">>,
               <<"inclusive", "exclusive">>},
        a \in BOOLEAN}

Extract(blocks, req) ==
    IF req.variant = "transactions" THEN ExtractFullTableDataForTransactions(blocks, req)
                                    ELSE ExtractFullTableData(blocks, req)

\* One call of extractFullTableData / extractFullTableDataForTransactions on the page
Reconstruct(req) ==
    /\ request = NoRequest
    /\ request' = req
    /\ table' = Extract(page, req)
    /\ page' = TextBlocksAfter(page, req, table')
    /\ UNCHANGED exceptTable

-----------------------------------------------------------------------------
(* BankStatementParser.process of the three parsers *)

ParserKinds == {"Bank of America", "Chase", "Generic"}

\* createBaseData
BaseData(bankName) ==
    [bankName |-> bankName, accounts |-> <<>>, statementPeriodStartDate |-> "null",
     statementPeriodEndDate |-> "null", entities |-> <<>>]

NewAccount == [accountNumberLast4 |-> "1234", transactions |-> FALSE]

\* What the steps of a run do: processPage(1) / findSummaryPage, the statement
\* period extraction, the account extraction, the detail and transaction pages,
\* and the write of saveExtractedData.
Scripts ==
    [page : {"ok", "null", "throws"}, period : {"ok", "null", "throws"},
     accounts : {"ok", "throws"}, details : {"ok", "throws"}, save : {"ok", "writeFails"}]

Parsers ==
    [kind : ParserKinds, hasProcessor : BOOLEAN, loadOk : BOOLEAN, script : Scripts]

Threw(data)    == [threw |-> TRUE, data |-> data, saved |-> FALSE]
Returned0(data, saved) == [threw |-> FALSE, data |-> data, saved |-> saved]

WithPeriod(data) ==
    [data EXCEPT !.statementPeriodStartDate = "set", !.statementPeriodEndDate = "set"]

WithAccount(data) == [data EXCEPT !.accounts = Append(@, NewAccount)]

WithTransactions(data) ==
    [data EXCEPT !.accounts = [k \in 1..Len(@) |-> [@[k] EXCEPT !.transactions = TRUE]]]

\* saveExtractedData catches a failed write itself
SaveExtractedData(sc) == sc.save = "ok"

\* The try block of BankOfAmericaStatementParser.process
BankOfAmericaTry(baseData, sc) ==
    IF sc.page = "throws" THEN Threw(baseData)
    ELSE IF sc.page = "null" THEN Returned0(baseData, FALSE)
    ELSE IF sc.period = "throws" THEN Threw(baseData)
    ELSE LET d1 == IF sc.period = "ok" THEN WithPeriod(baseData) ELSE baseData IN
         IF sc.period = "ok" /\ sc.accounts = "throws" THEN Threw(d1)
         ELSE LET d2 == IF sc.period = "ok" THEN WithAccount(d1) ELSE d1 IN
              IF sc.details = "throws" THEN Threw(d2)
              ELSE Returned0(WithTransactions(d2), SaveExtractedData(sc))

\* The try block of ChaseStatementParser.process; processSummaryPage reads
\* dateData['statement-period'] and throws when the template gave null.
ChaseTry(baseData, sc) ==
    IF sc.page = "throws" THEN Threw(baseData)
    ELSE IF sc.page = "ok" /\ sc.period # "ok" THEN Threw(baseData)
    ELSE LET d1 == IF sc.page = "ok" THEN WithPeriod(baseData) ELSE baseData IN
         IF sc.details = "throws" THEN Threw(d1)
         ELSE Returned0(d1, SaveExtractedData(sc))

\* catch (error) { return baseData; }
\* (The variant without the catch.)
ParserCatch_Rethrows(t) == [raised |-> t.threw, data |-> t.data, saved |-> t.saved]

ParserCatch(t) == [raised |-> FALSE, data |-> t.data, saved |-> t.saved]

\* process() of the parser p
Process(p) ==
    IF p.kind = "Generic"
    THEN [raised |-> FALSE, data |-> BaseData(p.kind), saved |-> SaveExtractedData(p.script)]
    ELSE IF ~p.hasProcessor /\ ~p.loadOk
    THEN [raised |-> FALSE, data |-> BaseData(p.kind), saved |-> FALSE]
    ELSE IF p.kind = "Bank of America"
    THEN ParserCatch(BankOfAmericaTry(BaseData(p.kind), p.script))
    ELSE ParserCatch(ChaseTry(BaseData(p.kind), p.script))

NoParser == [kind |-> "none", hasProcessor |-> FALSE, loadOk |-> FALSE,
             script |-> [page |-> "ok", period |-> "ok", accounts |-> "ok",
                         details |-> "ok", save |-> "ok"]]

NoResult == [raised |-> FALSE, data |-> BaseData("none"), saved |-> FALSE]

\* One call of parser.process()
ProcessStatement ==
    /\ result = NoResult
    /\ result' = Process(parser)
    /\ UNCHANGED <<parser, exceptParser>>

-----------------------------------------------------------------------------
(* Transaction rows (BankOfAmericaStatementParser) *)

\* A cell is a sequence of tokens written one after the other. Amounts are in cents.
AmountTokens == {"12.34", "0.00"}

Cents(token) == IF token = "12.34" THEN 1234 ELSE 0

\* /(\d{2})\/(\d{2})\/(\d{2}|\d{4})/ and /\d{1,2}\/\d{1,2}\/\d{2,4}/
DateTokens == {"01/02/24"}

NullAmount == [isNull |-> TRUE, cents |-> 0]
Amount(c)  == [isNull |-> FALSE, cents |-> c]

NullText == <<"null">>

First(S) == CHOOSE i \in S : \A j \in S : i <= j

\* /\(\$?[\d,]+\.\d{2}\)/.test(text)
Parenthesised(cell) ==
    \E i \in 1..Len(cell) :
        /\ cell[i] = "("
        /\ \/ i + 2 <= Len(cell) /\ cell[i + 1] \in AmountTokens /\ cell[i + 2] = ")"
           \/ /\ i + 3 <= Len(cell) /\ cell[i + 1] = "$"
              /\ cell[i + 2] \in AmountTokens /\ cell[i + 3] = ")"

\* extractAmount: the first amount of the text, negated when the text holds a
\* minus sign anywhere or the amount in parentheses
ExtractAmount(cell) ==
    LET hits == {i \in 1..Len(cell) : cell[i] \in AmountTokens} IN
    IF hits = {} THEN NullAmount
    ELSE LET amount == Cents(cell[First(hits)]) IN
         IF (\E i \in 1..Len(cell) : cell[i] = "-") \/ Parenthesised(cell)
         THEN Amount(-amount) ELSE Amount(amount)

HasDate(cell)   == \E i \in 1..Len(cell) : cell[i] \in DateTokens
HasAmount(cell) == \E i \in 1..Len(cell) : cell[i] \in AmountTokens

\* The header terms a lower-cased text can contain ('Transaction description' never matches)
HeaderTerms == {<<"date">>, <<"description">>, <<"amount">>, <<"balance">>}

\* isHeaderRow
IsHeaderRow(cells) ==
    LET rowText       == ToLowerCase(Join(cells))
        isTransaction == (\E k \in 1..Len(cells) : HasDate(cells[k]))
                         /\ (\E k \in 1..Len(cells) : HasAmount(cells[k]))
        headerCount   == Cardinality({t \in HeaderTerms : Includes(rowText, t)})
    IN  [isHeader |-> ~isTransaction /\ headerCount >= 2, isTransaction |-> isTransaction]

Abs(n) == IF n < 0 THEN -n ELSE n

\* "Apply sign adjustment for withdrawals"
SignAdjusted(amountVal, type) ==
    IF (type = "WITHDRAWAL" \/ type = "ATM_DEBIT") /\ ~amountVal.isNull
    THEN Amount(-Abs(amountVal.cents))
    ELSE amountVal

\* extractTransactionFromRow
ExtractTransactionFromRow(cells, type) ==
    LET n        == Len(cells)
        dateVal  == IF n > 0 /\ HasDate(cells[1])
                    THEN cells[1][First({i \in 1..Len(cells[1]) : cells[1][i] \in DateTokens})]
                    ELSE "null"
        last     == IF n > 1 THEN ExtractAmount(cells[n]) ELSE NullAmount
        others   == {k \in 1..n : ~ExtractAmount(cells[k]).isNull}
        amountVal == IF n > 1 /\ last.isNull /\ others # {}
                     THEN ExtractAmount(cells[First(others)]) ELSE last
        startIdx == IF dateVal # "null" THEN 1 ELSE 0
        endIdx   == n - (IF amountVal.isNull THEN 0 ELSE 1)
        descVal  == IF n > 2 THEN Join(SubSeq(cells, startIdx + 1, endIdx))
                    ELSE IF n = 2
                         THEN IF dateVal # "null" /\ ~amountVal.isNull THEN <<>>
                              ELSE IF dateVal # "null" THEN cells[2]
                              ELSE IF ~amountVal.isNull THEN cells[1]
                              ELSE Join(cells)
                    ELSE NullText
    IN  [date |-> dateVal, description |-> descVal, amount |-> SignAdjusted(amountVal, type),
         type |-> type, rawRowText |-> Join(cells)]

\* if (transaction.amount): null and zero are falsy
\* (The variant without the test.)
Truthy_Always(amount) == TRUE

\* (The variant that tests amount !== null.)
Truthy_NotNull(amount) == ~amount.isNull

Truthy(amount) == ~amount.isNull /\ amount.cents # 0

HeaderWords == {<<"date">>, <<"description">>, <<"amount">>}

\* The cells processDepositsTable keeps: those without a header word
TransactionData(cells) ==
    LET keep(cell) == \A w \in HeaderWords : ~Includes(ToLowerCase(cell), w)
    IN  SelectSeq(cells, keep)

TransactionTypes == {"DEPOSIT", "WITHDRAWAL", "ATM_DEBIT"}

\* One pass of the row loop of processDepositsTable, processWithdrawalsTable or
\* processAtmDebitTable: the transactions it pushes for the row
RowTransactions(cells, type) ==
    LET rowCheck == IsHeaderRow(cells) IN
    IF Len(cells) < 2 THEN <<>>
    ELSE IF rowCheck.isHeader /\ ~rowCheck.isTransaction THEN <<>>
    ELSE IF type = "DEPOSIT" /\ ~rowCheck.isTransaction THEN <<>>
    ELSE LET transaction == ExtractTransactionFromRow(
                                IF type = "DEPOSIT" THEN TransactionData(cells) ELSE cells, type)
         IN  IF Truthy(transaction.amount) THEN <<transaction>> ELSE <<>>

\* Cells as they occur in the tables: a date, descriptions, amounts written
\* plainly, with a minus sign, in parentheses and as zero, and header words.
CellPool ==
    << <<"01/02/24">>, <<"ACH">>, <<"12.34">>, <<"-", "12.34">>, <<"(", "12.34", ")">>,
       <<"0.00">>, <<"Date">>, <<"Amount">> >>

Rows(max) ==
    {[i \in DOMAIN f |-> CellPool[f[i]]] :
        f \in UNION {[1..n -> 1..Len(CellPool)] : n \in 0..max}}

NoRowType == "none"

ProcessRow(type) ==
    /\ rowType = NoRowType
    /\ rowType' = type
    /\ transactions' = RowTransactions(tableRow, type)
    /\ UNCHANGED <<tableRow, exceptRow>>

-----------------------------------------------------------------------------
(* Account page ranges (BankOfAmericaStatementParser) *)

NoPage == -1        \* a pageReference that is undefined

\* pageReference values: undefined, 0 (or null), and page numbers
PageReferences == {NoPage, 0, 1, 2, 3, 7, 12}

PageCounts == {3, 15}

Statements ==
    [pageReferences : UNION {[1..n -> PageReferences] : n \in 0..MaxAccounts},
     totalPages : PageCounts]

\* a || b on page numbers
OrElse(a, b) == IF a = 0 \/ a = NoPage THEN b ELSE a

\* [...data.accounts].filter(pageReference !== undefined).sort(by pageReference || 0):
\* the indices of the accounts, in processing order
SortedAccounts(refs) ==
    LET defined(i) == refs[i] # NoPage
    IN  SortBy(SelectSeq([i \in 1..Len(refs) |-> i], defined), refs)

\* const endPage = pageRange.endPage || this.documentProcessor.getPageCount()
EndPage(endPage, totalPages) == OrElse(endPage, totalPages)

\* processAccountStatement: the pages processTransactionTables is given
ProcessAccountStatement(account, startPage, endPage, totalPages) ==
    [account |-> account, startPage |-> startPage, endPage |-> EndPage(endPage, totalPages)]

RECURSIVE DetailLoop(_, _, _, _)
\* The loop of processAccountDetailPages from position i on
DetailLoop(sorted, refs, totalPages, i) ==
    IF i > Len(sorted) THEN <<>>
    ELSE LET startPage == refs[sorted[i]]
             endPage   == IF i < Len(sorted)
                          THEN OrElse(refs[sorted[i + 1]], totalPages) - 1
                          ELSE totalPages
             rest      == DetailLoop(sorted, refs, totalPages, i + 1)
         IN  IF startPage = 0 THEN rest
             ELSE <<ProcessAccountStatement(sorted[i], startPage, endPage, totalPages)>> \o rest

NoRanges == << [account |-> 0, startPage |-> 0, endPage |-> 0] >>

\* processAccountDetailPages
ProcessAccountDetailPages ==
    /\ ranges = NoRanges
    /\ ranges' = DetailLoop(SortedAccounts(statement.pageReferences),
                            statement.pageReferences, statement.totalPages, 1)
    /\ UNCHANGED <<statement, exceptRange>>

-----------------------------------------------------------------------------
(* Account numbers (BankOfAmericaStatementParser) *)

Digits == {"0", "1", "2", "3", "4", "5", "6", "7", "8", "9"}

IsDigit(c) == c \in Digits

Unknown == <<"unknown">>

\* slice(-n)
LastN(seq, n) == IF Len(seq) <= n THEN seq ELSE SubSeq(seq, Len(seq) - n + 1, Len(seq))

\* accountNumber.replace(/\D/g, '').slice(-4)
Last4(accountNumber) == LastN(SelectSeq(accountNumber, IsDigit), 4)

\* Account-number cells, character by character: "1234", "****56789",
\* "Acct 123", "Adv", and an empty cell
AccountNumberCells ==
    { <<"1", "2", "3", "4">>,
      <<"*", "*", "*", "*", "5", "6", "7", "8", "9">>,
      <<"A", "c", "c", "t", " ", "1", "2", "3">>,
      <<"A", "d", "v">>,
      <<>> }

\* /\d{4}/.test(cell) || (cell.includes('*') && /\d+/.test(cell))
ContainsAccountInfo(cell) ==
    \/ \E i \in 1..(Len(cell) - 3) : \A j \in i..(i + 3) : IsDigit(cell[j])
    \/ (\E i \in 1..Len(cell) : cell[i] = "*") /\ (\E i \in 1..Len(cell) : IsDigit(cell[i]))

\* table.headerCells of the account summary table, lower-cased, and the column
\* indices extractAccountInfoFromTable derives from them (1-based; 0 when none)
SummaryHeaders ==
    << <<"your", " ", "deposit", " ", "accounts">>, <<"account/plan", " ", "number">>,
       <<"ending", " ", "balance">>, <<"details", " ", "on">> >>

FindIndex(headers, words) ==
    LET hits == {i \in 1..Len(headers) : \E w \in words : Includes(headers[i], <<w>>)}
    IN  IF hits = {} THEN 0 ELSE CHOOSE i \in hits : \A j \in hits : i <= j

AccountNumIdx == FindIndex(SummaryHeaders, {"number", "account/plan", "acct"})
PageRefIdx    == FindIndex(SummaryHeaders, {"page", "details"})

\* headerKeywords of the row loop
SummaryHeaderKeywords ==
    { <<"your", " ", "deposit", " ", "accounts">>, <<"account/plan", " ", "number">>,
      <<"ending", " ", "balance">>, <<"details", " ", "on">> }

IsSpace(c) == c = " "

RECURSIVE TrimStart(_)
TrimStart(cell) ==
    IF cell # <<>> /\ IsSpace(Head(cell)) THEN TrimStart(Tail(cell)) ELSE cell

RECURSIVE TrimEnd(_)
TrimEnd(cell) ==
    IF cell # <<>> /\ IsSpace(cell[Len(cell)])
    THEN TrimEnd(SubSeq(cell, 1, Len(cell) - 1)) ELSE cell

\* cell.trim()
Trim(cell) == TrimEnd(TrimStart(cell))

\* row.some(cell => cell.toLowerCase().includes('total'))
IsTotalRow(row) == \E k \in 1..Len(row) : Includes(ToLowerCase(row[k]), <<"total">>)

ContainsHeaderInfo(row) ==
    \E k \in 1..Len(row) : \E kw \in SummaryHeaderKeywords : Includes(ToLowerCase(row[k]), kw)

RowContainsAccountInfo(row) == \E k \in 1..Len(row) : ContainsAccountInfo(row[k])

\* "If row is only a header with no account info, skip it"
IsPureHeaderRow(row) == ContainsHeaderInfo(row) /\ ~RowContainsAccountInfo(row)

\* A cell that is a header keyword and nothing else
IsPureHeaderCell(cell) ==
    \E kw \in SummaryHeaderKeywords :
        ToLowerCase(cell) = kw \/ Trim(ToLowerCase(cell)) = kw

\* filteredRow: a mixed header/account row loses its pure header cells and its
\* blank cells; any other row is kept as it is
FilteredRow(row) ==
    LET keep(cell) == ~IsPureHeaderCell(cell) /\ Trim(cell) # <<>>
    IN  IF ContainsHeaderInfo(row) /\ RowContainsAccountInfo(row)
        THEN SelectSeq(row, keep) ELSE row

\* idx >= 0 && idx < filteredRow.length ? filteredRow[idx] : null, with null and
\* the empty string both written <<>> (both are falsy, and nothing else is read)
CellAt(row, idx) == IF idx >= 1 /\ idx <= Len(row) THEN row[idx] ELSE <<>>

RECURSIVE ParseInt(_)
\* parseInt(digits, 10)
ParseInt(digits) ==
    IF digits = <<>> THEN 0
    ELSE 10 * ParseInt(SubSeq(digits, 1, Len(digits) - 1))
         + (CHOOSE d \in 0..9 : ToString(d) = digits[Len(digits)])

\* pageRefText.match(/page\s+(\d+)/i): the number after the leftmost 'page' that
\* is followed by white space and a digit; NoPage (undefined) when there is none
PageReferenceOf(cell) ==
    LET starts == {i \in 1..Len(cell) :
                     /\ LowerWord(cell[i]) = "page"
                     /\ \E j \in (i + 2)..Len(cell) :
                           /\ IsDigit(cell[j])
                           /\ \A m \in (i + 1)..(j - 1) : IsSpace(cell[m])}
    IN  IF starts = {} THEN NoPage
        ELSE LET i == First(starts)
                 j == First({m \in (i + 2)..Len(cell) : IsDigit(cell[m])})
                 e == First({m \in j..Len(cell) : m = Len(cell) \/ ~IsDigit(cell[m + 1])})
             IN  ParseInt(SubSeq(cell, j, e))

\* One pass of the row loop of extractAccountInfoFromTable: the accounts it pushes
AccountsOfRow(row) ==
    LET filteredRow   == FilteredRow(row)
        accountNumber == CellAt(filteredRow, AccountNumIdx)
        pageRefText   == CellAt(filteredRow, PageRefIdx)
    IN  IF IsTotalRow(row) THEN <<>>
        ELSE IF IsPureHeaderRow(row) THEN <<>>
        ELSE IF accountNumber = <<>> THEN <<>>
        ELSE << [accountNumberLast4 |-> Last4(accountNumber),
                 pageReference |-> IF pageRefText = <<>> THEN NoPage
                                   ELSE PageReferenceOf(pageRefText)] >>

RECURSIVE AccountsOfRows(_)
AccountsOfRows(rows) ==
    IF rows = <<>> THEN <<>> ELSE AccountsOfRow(Head(rows)) \o AccountsOfRows(Tail(rows))

\* Cells that refer to a page: "page 3", "Page  7", and "p.3"
PageCells ==
    { <<"page", " ", "3">>, <<"Page", " ", " ", "7">>, <<"p", ".", "3">> }

\* Rows of the reconstructed account summary table, as sequences of cells: rows
\* with a cell under each of the four headers, rows without a balance cell, a
\* total row, a header row, and rows that a header cell was clustered into.
SummaryRows ==
    LET name    == <<"Adv">>
        balance == <<"$", "1", ".", "0", "0">>
        header  == <<"Details", " ", "on">>
    IN  {<<name, n, balance, p>> : n \in AccountNumberCells, p \in PageCells}
        \cup {<<name, n, p>> : n \in AccountNumberCells \ {<<>>}, p \in PageCells}
        \cup {<<header, name, n, balance, <<"page", " ", "3">> >> :
                 n \in AccountNumberCells \ {<<>>}}
        \cup { << <<"Total">>, balance >>,
               << <<"Ending", " ", "balance">>, header >>,
               << header, <<"1", "2", "3", "4">> >> }

\* Text blocks, token by token. accountNumberRegex wants 'account', optionally
\* 'number' or '#' and ':' or '.', then one or more groups of four digits (each
\* may carry a mask glued in front) and then four digits, which it captures.
FourDigits   == {"1234", "5678"}
MaskedDigits == {"xxxx1234", "****1234"}

TextBlocks ==
    << <<"Account", "number", ":", "1234", "5678">>,
       <<"account", "#", "xxxx1234", "5678", "1234">>,
       <<"account", "xxxx1234">>,
       <<"Adv", "Plus", "Banking">>,
       <<"Account", "1234", "12">>,
       <<"Account", "Number", ":", "****1234">>,
       <<"Savings">> >>

\* \s*[:.]?\s* : the token after an optional ':' or '.' at j0
SkipPunctuation(text, j0) ==
    IF j0 <= Len(text) /\ text[j0] \in {":", "."} THEN j0 + 1 ELSE j0

\* account\s+(?:number|#)?\s*[:.]?\s* from the token 'account' at i: the token
\* at which the digits are to start
AccountNumberStart(text, i) ==
    SkipPunctuation(text, IF i + 1 <= Len(text) /\ LowerWord(text[i + 1]) \in {"number", "#"}
                          THEN i + 2 ELSE i + 1)

\* [x\*]*\d{4} at token j
IsAccountNumberToken(text, j) == j <= Len(text) /\ text[j] \in FourDigits \cup MaskedDigits

\* /account\s+(?:number|#)?\s*[:.]?\s*[x\*]*(\d{4})/i.test(text)
AccountReference(text) ==
    \E i \in 1..Len(text) :
        /\ LowerWord(text[i]) = "account"
        /\ IsAccountNumberToken(text, AccountNumberStart(text, i))

\* isCombinedStatementPage: a combined-statement phrase in some block, or more
\* than one block with an account reference
IsCombinedStatementPage(blocks) ==
    \/ \E k \in 1..Len(blocks) :
          \/ Includes(ToLowerCase(blocks[k]), <<"combined", "statement">>)
          \/ Includes(ToLowerCase(blocks[k]), <<"your", "deposit", "accounts">>)
    \/ Cardinality({k \in 1..Len(blocks) : AccountReference(blocks[k])}) > 1

CombinedStatementPhrase == <<"Your", "combined", "statement">>

\* (?:[x\*]*\d{4}\s*)+([0-9]{4}) from token j: the tokens the capture can be.
\* The groups take as many tokens as they can and give tokens back until four
\* digits follow.
Captures(text, j) ==
    {k \in (j + 1)..Len(text) :
        /\ text[k] \in FourDigits
        /\ \A m \in j..k : text[m] \in FourDigits \cup MaskedDigits}

\* The digits of the last of the captures, <<>> when there is none
LastCapture(text, captures) ==
    IF captures = {} THEN <<>>
    ELSE [n \in 1..4 |->
            CASE text[CHOOSE c \in captures : \A d \in captures : d <= c] = "1234"
                    -> <<"1", "2", "3", "4">>[n]
              [] OTHER -> <<"5", "6", "7", "8">>[n]]

\* The capture of the leftmost match that starts at token i, <<>> when none
AccountMatchAt(text, i) ==
    IF LowerWord(text[i]) # "account" THEN <<>>
    ELSE LastCapture(text, Captures(text, AccountNumberStart(text, i)))

\* The first of the matches that is not empty, <<>> when all are
FirstMatch(matches) ==
    IF \A i \in DOMAIN matches : matches[i] = <<>> THEN <<>>
    ELSE matches[First({i \in DOMAIN matches : matches[i] # <<>>})]

\* block.text.match(accountNumberRegex): accountMatch[1], <<>> when no match
AccountMatch(text) == FirstMatch([i \in 1..Len(text) |-> AccountMatchAt(text, i)])

\* if (accountMatch && accountMatch[1]) account.accountNumberLast4 = ...
WithAccountNumber(account, match) ==
    IF match # <<>> THEN [account EXCEPT !.accountNumberLast4 = match] ELSE account

\* if (blockText.includes('adv plus banking')) account.type = ...
WithAccountType(account, text) ==
    IF Includes(ToLowerCase(text), <<"adv", "plus", "banking">>)
    THEN [account EXCEPT !.typed = TRUE] ELSE account

RECURSIVE DetectLoop(_, _)
\* The loop of detectAccountsFromText over the blocks: the account it builds
DetectLoop(blocks, account) ==
    IF blocks = <<>> THEN account
    ELSE DetectLoop(Tail(blocks),
                    WithAccountType(WithAccountNumber(account, AccountMatch(Head(blocks))),
                                    Head(blocks)))

\* if (account.accountNumberLast4 && account.type) accounts.push(account)
PushIfComplete(account) ==
    IF account.accountNumberLast4 # Unknown /\ account.typed
    THEN << [accountNumberLast4 |-> account.accountNumberLast4, pageReference |-> NoPage] >>
    ELSE <<>>

\* detectAccountsFromText: the accounts it pushes
DetectAccountsFromText(blocks) ==
    PushIfComplete(DetectLoop(blocks, [accountNumberLast4 |-> Unknown, typed |-> FALSE]))

\* The 'unknown' account pushed when none was detected
OrUnknownAccount(detected) ==
    IF detected = <<>>
    THEN << [accountNumberLast4 |-> Unknown, pageReference |-> NoPage] >>
    ELSE detected

NotRead == << [accountNumberLast4 |-> <<"not read">>, pageReference |-> NoPage] >>

\* extractAccountInfoFromTable on the reconstructed rows of the summary table of
\* a combined statement's first page
ExtractAccountInfoFromTable ==
    /\ accounts = NotRead
    /\ IsCombinedStatementPage(firstPage.blocks)
    /\ firstPage.rows # <<>>
    /\ accounts' = AccountsOfRows(firstPage.rows)
    /\ UNCHANGED <<firstPage, exceptAccount>>

\* processCombinedStatementPage when no account summary table is found or
\* reconstructed: data.accounts stays empty
ProcessCombinedStatementPage ==
    /\ accounts = NotRead
    /\ IsCombinedStatementPage(firstPage.blocks)
    /\ firstPage.rows = <<>>
    /\ accounts' = <<>>
    /\ UNCHANGED <<firstPage, exceptAccount>>

\* processNonCombinedStatementPage: detectAccountsFromText, an 'unknown'
\* account when it found none, and pageReference = 1 on the first account
ProcessNonCombinedStatementPage ==
    /\ accounts = NotRead
    /\ ~IsCombinedStatementPage(firstPage.blocks)
    /\ accounts' = [OrUnknownAccount(DetectAccountsFromText(firstPage.blocks))
                        EXCEPT ![1].pageReference = 1]
    /\ UNCHANGED <<firstPage, exceptAccount>>

\* First pages: a combined statement with the rows of its summary table, or a
\* page of text blocks
FirstPages ==
    {[rows |-> r, blocks |-> <<CombinedStatementPhrase>>] :
        r \in UNION {[1..n -> SummaryRows] : n \in 1..MaxSummaryRows}}
    \cup
    {[rows |-> <<>>, blocks |-> [i \in DOMAIN f |-> TextBlocks[f[i]]]] :
        f \in UNION {[1..n -> 1..Len(TextBlocks)] : n \in 0..MaxTextBlocks}}

-----------------------------------------------------------------------------
(* processUploadedFile: the temporary file of a statement fetched from a URL *)

\* filePathOrUrl: a URL, or the path of an uploaded file
UploadSources ==
    {[url |-> "https", file |-> "a"], [url |-> "http", file |-> "a"],
     [url |-> "", file |-> "a"], [url |-> "", file |-> "b"]}

\* filePathOrUrl.startsWith('http')
IsUrl(src) == src.url \in {"http", "https"}

\* MIME types as callers pass them; one has no '/'
FileTypes == {"application/pdf", "pdf"}

\* fileType.split('/')[1] || 'file'
Extension(fileType) == IF fileType = "application/pdf" THEN "pdf" ELSE "file"

LocalPath(src) == [dir |-> "/uploads", name |-> src.file, stamp |-> 0, ext |-> "pdf"]

\* `/tmp/temp-statement-${Date.now()}.${extension}`
TempFilePath(t, extension) ==
    [dir |-> "/tmp", name |-> "temp-statement", stamp |-> t, ext |-> extension]

NoPath == [dir |-> "", name |-> "", stamp |-> 0, ext |-> ""]

Op(op, path) == [op |-> op, path |-> path]

\* What the awaited calls do: fetch gives the bytes or fails; writeFile resolves,
\* or rejects having written nothing or a part of the file; processStatement
\* gives data or null, or the code after it throws; unlink resolves or rejects.
UploadOutcomes ==
    {o \in [fetch : BOOLEAN, write : {"written", "rejected", "partial"},
            process : {"data", "null", "throws"}, unlink : BOOLEAN, elapsed : 0..1] :
        \* a call that is not reached has no outcome
        /\ ~o.fetch => o.write = "written"
        /\ o.write # "written" => (o.process = "data" /\ o.unlink)}

\* The finally block
\* (The variant that cleans up at the end of the try block and after a null
\* result, and not when the catch block was entered.)
Cleanup_OnReturnOnly(needsCleanup, tempFilePath, fs, trace, exit, unlinkOk) ==
    IF needsCleanup /\ exit # "catch"
    THEN [files |-> IF unlinkOk THEN fs \ {tempFilePath} ELSE fs,
          trace |-> Append(trace, Op("unlink", tempFilePath))]
    ELSE [files |-> fs, trace |-> trace]

Cleanup(needsCleanup, tempFilePath, fs, trace, exit, unlinkOk) ==
    IF needsCleanup
    THEN [files |-> IF unlinkOk THEN fs \ {tempFilePath} ELSE fs,
          trace |-> Append(trace, Op("unlink", tempFilePath))]
    ELSE [files |-> fs, trace |-> trace]

\* The try / catch / finally statement around processStatement
DocumentAiProcessing(src, fileType, o, fs, t) ==
    LET isUrl        == IsUrl(src)
        tempFilePath == IF isUrl THEN TempFilePath(t, Extension(fileType)) ELSE LocalPath(src)
        fs1          == IF isUrl /\ o.write # "rejected" THEN fs \cup {tempFilePath} ELSE fs
        wrote        == IF isUrl THEN <<Op("writeFile", tempFilePath)>> ELSE <<>>
        rejected     == isUrl /\ o.write # "written"
        needsCleanup == isUrl /\ ~rejected
        trace        == IF rejected THEN wrote
                        ELSE Append(wrote, Op("processStatement", tempFilePath))
        exit         == IF rejected \/ o.process = "throws" THEN "catch"
                        ELSE IF o.process = "null" THEN "null" ELSE "success"
        c            == Cleanup(needsCleanup, tempFilePath, fs1, trace, exit, o.unlink)
    IN  [files |-> c.files, trace |-> c.trace, exit |-> exit,
         tempFilePath |-> tempFilePath, needsCleanup |-> needsCleanup,
         created |-> isUrl /\ o.write = "written"]

NoUpload ==
    [source |-> [url |-> "", file |-> ""], isUrl |-> FALSE, exit |-> "none", trace |-> <<>>,
     tempFilePath |-> NoPath, needsCleanup |-> FALSE, created |-> FALSE, filesBefore |-> {}]

\* One call of processUploadedFile(filePathOrUrl, fileType)
ProcessUploadedFile(src, fileType, o) ==
    LET isUrl == IsUrl(src)
        got   == IF isUrl THEN o.fetch ELSE LocalPath(src) \in files
        read  == IF isUrl THEN <<Op("fetch", NoPath)>> ELSE <<Op("readFile", LocalPath(src))>>
        r     == DocumentAiProcessing(src, fileType, o, files, now)
    IN  /\ now + o.elapsed <= MaxStamp
        /\ now' = now + o.elapsed
        /\ files' = IF got THEN r.files ELSE files
        /\ upload' = IF got
                     THEN [source |-> src, isUrl |-> isUrl, exit |-> r.exit,
                           trace |-> read \o r.trace, tempFilePath |-> r.tempFilePath,
                           needsCleanup |-> r.needsCleanup, created |-> r.created,
                           filesBefore |-> files]
                     ELSE [source |-> src, isUrl |-> isUrl, exit |-> "not read",
                           trace |-> read, tempFilePath |-> NoPath,
                           needsCleanup |-> FALSE, created |-> FALSE, filesBefore |-> files]
        /\ UNCHANGED exceptUpload

-----------------------------------------------------------------------------
(* processUploadedFile: calls for URL sources in flight at the same time *)

\* Two requests being served by the one Node process; every await is a point
\* where the other call can run.
Handlers == {1, 2}

NoCaller == 0

TempPaths == {TempFilePath(t, Extension(ft)) : t \in 0..MaxStamp, ft \in FileTypes}

IdleHandler ==
    [pc |-> "idle", fileType |-> "", tempFilePath |-> NoPath, needsCleanup |-> FALSE,
     given |-> NoCaller]

\* The millisecond passes
Tick ==
    /\ time < MaxStamp
    /\ time' = time + 1
    /\ UNCHANGED <<tempFs, handlers, exceptTemp>>

\* processUploadedFile(url, fileType) is called and the fetch gives the bytes
FetchUrl(h, fileType) ==
    /\ handlers[h].pc = "idle"
    /\ handlers' = [handlers EXCEPT ![h].pc = "fetched", ![h].fileType = fileType]
    /\ UNCHANGED <<tempFs, time, exceptTemp>>

\* tempFilePath = `/tmp/temp-statement-${Date.now()}.${extension}`;
\* await fs.writeFile(tempFilePath, fileContent); needsCleanup = true
WriteTempFile(h) ==
    LET tempFilePath == TempFilePath(time, Extension(handlers[h].fileType)) IN
    /\ handlers[h].pc = "fetched"
    /\ tempFs' = [tempFs EXCEPT ![tempFilePath] = h]
    /\ handlers' = [handlers EXCEPT ![h].pc = "written", ![h].tempFilePath = tempFilePath,
                                    ![h].needsCleanup = TRUE]
    /\ UNCHANGED <<time, exceptTemp>>

\* await processStatement(tempFilePath, fileType): the document loader reads the
\* file at the path; given is the call whose bytes it finds there (NoCaller: no file)
ReadForOcr(h) ==
    /\ handlers[h].pc = "written"
    /\ handlers' = [handlers EXCEPT ![h].pc = "read",
                                    ![h].given = tempFs[handlers[h].tempFilePath]]
    /\ UNCHANGED <<tempFs, time, exceptTemp>>

\* finally: if (needsCleanup) await fs.unlink(tempFilePath), an error is logged
UnlinkTempFile(h) ==
    /\ handlers[h].pc = "read"
    /\ tempFs' = IF handlers[h].needsCleanup
                 THEN [tempFs EXCEPT ![handlers[h].tempFilePath] = NoCaller] ELSE tempFs
    /\ handlers' = [handlers EXCEPT ![h].pc = "returned"]
    /\ UNCHANGED <<time, exceptTemp>>

-----------------------------------------------------------------------------
(* processStatement: bank detection and the choice of the parser *)

\* Lines of text on the pages of a statement, word by word
StatementLines ==
    << <<"Bank", "of", "America">>, <<"Chase">>, <<"Wells", "Fargo">>, <<"Citibank">>,
       <<"Capital", "One">>, <<"Statement">>, <<"purchase">> >>

\* The pages of an OCR document, each a sequence of at most MaxPageLines lines
OcrPagePool ==
    {[i \in DOMAIN f |-> StatementLines[f[i]]] :
        f \in UNION {[1..n -> 1..Len(StatementLines)] : n \in 0..MaxPageLines}}

OcrDocuments == UNION {[1..n -> OcrPagePool] : n \in 0..MaxDocPages}

\* The text of one page
PageText(lines) == Join(lines)

\* document.text: the text of all the pages, in order
DocumentText(pages) == Join([i \in DOMAIN pages |-> PageText(pages[i])])

\* ProcessedPage.fullText as processPage sets it: this.document.text || ""
FullTextOf(pages, pageNumber) == DocumentText(pages)

\* bankPatterns, in order
BankNames == <<"Bank of America", "Chase", "Wells Fargo", "Citibank", "Capital One">>

\* bank.pattern.test(text); a pattern without \s matches inside a word
PatternTest(name, text) ==
    LET t == ToLowerCase(text) IN
    CASE name = "Bank of America" ->
            \/ Includes(t, <<"bank", "of", "america">>)
            \/ \E i \in DOMAIN t : t[i] \in {"bankofamerica", "bofa"}
      [] name = "Chase" -> \E i \in DOMAIN t : t[i] \in {"chase", "purchase", "jpmorgan"}
      [] name = "Wells Fargo" -> Includes(t, <<"wells", "fargo">>)
      [] name = "Citibank" -> \E i \in DOMAIN t : t[i] \in {"citi", "citibank"}
      [] name = "Capital One" -> Includes(t, <<"capital", "one">>)
      [] OTHER -> FALSE

\* The loop over bankPatterns: the first name whose pattern matches, or "Unknown"
DetectBank(text) ==
    LET hits == {k \in DOMAIN BankNames : PatternTest(BankNames[k], text)}
    IN  IF hits = {} THEN "Unknown" ELSE BankNames[First(hits)]

\* switch (bankName)
ParserFor(bankName) ==
    CASE bankName = "Bank of America" -> "BankOfAmericaStatementParser"
      [] bankName = "Chase" -> "ChaseStatementParser"
      [] OTHER -> "GenericBankStatementParser"

NotChosen == [returned |-> "not called", bankName |-> "none", parser |-> "none"]

\* processStatement up to the construction of the parser; loaded is what
\* processDocument returned
SelectParser(loaded) ==
    /\ chosen = NotChosen
    /\ chosen' =
          IF ~loaded \/ ocrPages = <<>>
          THEN [returned |-> "null", bankName |-> "none", parser |-> "none"]
          ELSE LET bankName == DetectBank(FullTextOf(ocrPages, 1))
               IN  [returned |-> "parsed", bankName |-> bankName, parser |-> ParserFor(bankName)]
    /\ UNCHANGED <<ocrPages, exceptDetect>>

-----------------------------------------------------------------------------
(* processTransactionTables: the pages of one account's section *)

\* The text blocks of the pages of a section, token by token
SectionPagePool ==
    { <<>>,
      << <<"Deposits">> >>,
      << <<"Account", "number", ":", "1234">> >>,
      << <<"Account", "#", "5678">> >>,
      << <<"Account", "number", ":", "1234">>, <<"Account", "#", "5678">> >>,
      << <<"Account", "number", ":", "5678", "from", "1234">> >> }

\* account.accountNumberLast4
SectionLast4s == {"1234", "5678", "unknown"}

\* text.includes(last4), for a last4 without spaces: some token contains it
BlockIncludes(text, last4) ==
    \E i \in DOMAIN text :
        \/ text[i] = last4
        \/ last4 = "1234" /\ text[i] \in MaskedDigits

\* isEndOfAccountSection
IsEndOfAccountSection(blocks, last4) ==
    \E k \in DOMAIN blocks :
        AccountReference(blocks[k]) /\ ~BlockIncludes(blocks[k], last4)

\* The test that ends the loop after a page
\* (The variant that lets the start page end the section too.)
EndsSection_AnyPage(blocks, last4, pageNum, startPage) ==
    IsEndOfAccountSection(blocks, last4)

EndsSection(blocks, last4, pageNum, startPage) ==
    IsEndOfAccountSection(blocks, last4) /\ pageNum > startPage

RECURSIVE TransactionTablesLoop(_, _, _)
\* The page loop of processTransactionTables from pageNum on: the pages whose
\* tables it reads. A page processPage cannot give is skipped.
TransactionTablesLoop(sec, pageNum, read) ==
    IF pageNum > sec.endPage THEN read
    ELSE IF pageNum \notin DOMAIN sec.pages
    THEN TransactionTablesLoop(sec, pageNum + 1, read)
    ELSE IF EndsSection(sec.pages[pageNum], sec.last4, pageNum, sec.startPage)
    THEN Append(read, pageNum)
    ELSE TransactionTablesLoop(sec, pageNum + 1, Append(read, pageNum))

NotProcessed == <<0>>

Sections ==
    {[startPage |-> a, endPage |-> b, last4 |-> l, pages |-> pp] :
        a \in 1..MaxSectionPages, b \in 1..MaxSectionPages, l \in SectionLast4s,
        pp \in UNION {[1..n -> SectionPagePool] : n \in 0..MaxSectionPages}}

\* processTransactionTables(startPage, endPage, account)
ProcessTransactionTables ==
    /\ processed = NotProcessed
    /\ processed' = TransactionTablesLoop(section, section.startPage, <<>>)
    /\ UNCHANGED <<section, exceptSection>>

-----------------------------------------------------------------------------
(* extractTextBlocksWithPositions: paragraphs, or else tokens *)

\* A paragraph or token of the OCR page: its text, and whether it has both a
\* text anchor with segments and a bounding polygon of four vertices
LayoutUnits ==
    {[text |-> "a", layout |-> TRUE], [text |-> "b", layout |-> TRUE],
     [text |-> "c", layout |-> FALSE]}

\* page.paragraphs / page.tokens: the field is absent, or holds a list
\* (the OCR client gives an empty list for a repeated field without elements)
AbsentList == [present |-> FALSE, items |-> <<>>]

UnitLists ==
    {AbsentList} \cup
    {[present |-> TRUE, items |-> l] : l \in UNION {[1..n -> LayoutUnits] : n \in 0..MaxUnits}}

\* The blocks pushed for the units of one list, in order
BlocksOf(items, kind) ==
    LET withLayout == SelectSeq(items, LAMBDA u : u.layout)
    IN  [k \in 1..Len(withLayout) |-> [text |-> withLayout[k].text, from |-> kind]]

\* if (page.paragraphs) ... : an array is truthy, also when it is empty
Truthy_List(list) == list.present

\* extractTextBlocksWithPositions
ExtractTextBlocksWithPositionsOf(pg) ==
    IF Truthy_List(pg.paragraphs) THEN BlocksOf(pg.paragraphs.items, "paragraph")
    ELSE IF Truthy_List(pg.tokens) THEN BlocksOf(pg.tokens.items, "token")
    ELSE <<>>

NotExtracted == << [text |-> "not extracted", from |-> "none"] >>

\* One call of extractTextBlocksWithPositions(page, fullText)
ExtractTextBlocksWithPositions ==
    /\ textBlocks = NotExtracted
    /\ textBlocks' = ExtractTextBlocksWithPositionsOf(ocrPage)
    /\ UNCHANGED <<ocrPage, exceptBlocks>>

-----------------------------------------------------------------------------
(* statementRouter: the upload and process mutations *)

\* Two statements of one user. The database is available: a Prisma call
\* resolves unless the schema makes it reject (the unique index of BankAccount).
StatementIds == {1, 2}

NoStatement == [status |-> "none", errorMessage |-> ""]

\* What processUploadedFile gives the mutation: success with the data of the
\* parser processStatement chose (it hands every parser its DocumentProcessor),
\* or no success and an error text
ProcessingResults ==
    {[success |-> FALSE, data |-> BaseData("none")]}
    \cup {[success |-> TRUE, data |-> Process(p).data] :
              p \in {q \in Parsers : q.hasProcessor /\ q.loadOk}}

Thrown(message) == [isError |-> TRUE, message |-> message]

NoError == [isError |-> FALSE, message |-> ""]

\* !bankName || !accounts || accounts.length === 0 ||
\* !statementPeriodStartDate || !statementPeriodEndDate
\* (The variant that does not look at the accounts.)
Incomplete_AccountsNotChecked(data) ==
    \/ data.bankName = ""
    \/ data.statementPeriodStartDate = "null"
    \/ data.statementPeriodEndDate = "null"

Incomplete(data) ==
    \/ data.bankName = ""
    \/ data.accounts = <<>>
    \/ data.statementPeriodStartDate = "null"
    \/ data.statementPeriodEndDate = "null"

\* What the code after processUploadedFile throws, if it throws
ThrownAfterProcessing(processingResult) ==
    IF ~processingResult.success THEN Thrown("Document AI processing failed")
    ELSE IF Incomplete(processingResult.data)
         THEN Thrown("Incomplete statement data: missing bank name, accounts, or statement period")
         ELSE NoError

\* error instanceof Error ? error.message : "Unknown error"
\* (The variant that stores no message.)
ErrorMessage_None(error) == ""

ErrorMessage(error) == IF error.isError THEN error.message ELSE "Unknown error"

\* where: { userId, financialInstitution: bankName, lastFourDigits }, for the one user
AccountKey(data, i) ==
    [financialInstitution |-> data.bankName,
     lastFourDigits |-> data.accounts[i].accountNumberLast4]

\* bankAccount.findFirst
FindFirst(rows, key) == \E k \in 1..Len(rows) : rows[k] = key

\* @@unique([userId, financialInstitution, lastFourDigits]): create rejects a second row
UniqueViolation(rows, key) == \E k \in 1..Len(rows) : rows[k] = key

NoRun ==
    [mutation |-> "none", call |-> 0, pc |-> "none", returned |-> FALSE,
     data |-> BaseData("none"), i |-> 0, found |-> FALSE, error |-> NoError, wrote |-> <<>>]

\* statement.update({ data: { status } }) by the run of statement s
WriteStatus(s, status, message) ==
    statementRows' = [statementRows EXCEPT ![s] = [status |-> status, errorMessage |-> message]]

\* upload: statement.create with status UPLOADED; the detached task is started
\* (it runs up to its first await) and the mutation returns the statement's id
Upload(s) ==
    /\ runs[s].mutation = "none"
    /\ statementRows[s] = NoStatement
    /\ WriteStatus(s, "UPLOADED", "")
    /\ runs' = [runs EXCEPT ![s] = [NoRun EXCEPT !.mutation = "upload", !.call = 1,
                                                  !.pc = "setProcessing", !.returned = TRUE,
                                                  !.wrote = <<"UPLOADED">>]]
    /\ UNCHANGED <<bankAccounts, exceptDb>>

\* process: the statement is found and has a storage URL
ProcessMutation(s) ==
    /\ runs[s].pc = "done"
    /\ runs[s].call < MaxCalls
    /\ runs' = [runs EXCEPT ![s] = [NoRun EXCEPT !.mutation = "process",
                                                  !.call = runs[s].call + 1,
                                                  !.pc = "setProcessing"]]
    /\ UNCHANGED <<statementRows, bankAccounts, exceptDb>>

\* await statement.update({ status: PROCESSING })
SetProcessing(s) ==
    /\ runs[s].pc = "setProcessing"
    /\ WriteStatus(s, "PROCESSING", statementRows[s].errorMessage)
    /\ runs' = [runs EXCEPT ![s].pc = "processFile", ![s].wrote = Append(@, "PROCESSING")]
    /\ UNCHANGED <<bankAccounts, exceptDb>>

\* await processUploadedFile(...) and the two checks of its processingResult. upload
\* walks the accounts before it writes COMPLETED, process after.
ProcessFile(s, processingResult) ==
    /\ runs[s].pc = "processFile"
    /\ runs' = [runs EXCEPT ![s].data = processingResult.data,
                            ![s].error = ThrownAfterProcessing(processingResult),
                            ![s].i = 1,
                            ![s].pc = IF ThrownAfterProcessing(processingResult) # NoError THEN "catch"
                                      ELSE IF runs[s].mutation = "upload" THEN "accounts"
                                      ELSE "setCompleted"]
    /\ UNCHANGED <<statementRows, bankAccounts, exceptDb>>

\* The loop over the accounts: an account without last four digits is skipped,
\* for the others await bankAccount.findFirst
FindAccount(s) ==
    /\ runs[s].pc = "accounts"
    /\ runs[s].i <= Len(runs[s].data.accounts)
    /\ runs' = IF runs[s].data.accounts[runs[s].i].accountNumberLast4 = ""
               THEN [runs EXCEPT ![s].i = @ + 1]
               ELSE [runs EXCEPT ![s].found = FindFirst(bankAccounts, AccountKey(runs[s].data, runs[s].i)),
                                 ![s].pc = "createOrUpdate"]
    /\ UNCHANGED <<statementRows, bankAccounts, exceptDb>>

\* if (bankAccount) update its balance, else await bankAccount.create
CreateOrUpdate(s) ==
    /\ runs[s].pc = "createOrUpdate"
    /\ IF runs[s].found
       THEN /\ runs' = [runs EXCEPT ![s].i = @ + 1, ![s].pc = "accounts"]
            /\ UNCHANGED bankAccounts
       ELSE IF UniqueViolation(bankAccounts, AccountKey(runs[s].data, runs[s].i))
       THEN /\ runs' = [runs EXCEPT ![s].error = Thrown("Unique constraint failed"),
                                    ![s].pc = "catch"]
            /\ UNCHANGED bankAccounts
       ELSE /\ bankAccounts' = Append(bankAccounts, AccountKey(runs[s].data, runs[s].i))
            /\ runs' = [runs EXCEPT ![s].i = @ + 1, ![s].pc = "accounts"]
    /\ UNCHANGED <<statementRows, exceptDb>>

\* The loop is over
EndOfAccounts(s) ==
    /\ runs[s].pc = "accounts"
    /\ runs[s].i > Len(runs[s].data.accounts)
    /\ runs' = [runs EXCEPT ![s].pc = IF runs[s].mutation = "upload" THEN "setCompleted"
                                      ELSE "done"]
    /\ UNCHANGED <<statementRows, bankAccounts, exceptDb>>

\* await statement.update({ status: COMPLETED, ... })
SetCompleted(s) ==
    /\ runs[s].pc = "setCompleted"
    /\ WriteStatus(s, "COMPLETED", statementRows[s].errorMessage)
    /\ runs' = [runs EXCEPT ![s].pc = IF runs[s].mutation = "upload" THEN "done" ELSE "accounts",
                            ![s].wrote = Append(@, "COMPLETED")]
    /\ UNCHANGED <<bankAccounts, exceptDb>>

\* catch (error): await statement.update({ status: FAILED, errorMessage })
CatchError(s) ==
    /\ runs[s].pc = "catch"
    /\ WriteStatus(s, "FAILED", ErrorMessage(runs[s].error))
    /\ runs' = [runs EXCEPT ![s].pc = "done", ![s].wrote = Append(@, "FAILED")]
    /\ UNCHANGED <<bankAccounts, exceptDb>>

\* The steps the event loop takes once their awaited call has resolved
TaskStep(s) ==
    \/ SetProcessing(s)
    \/ \E processingResult \in ProcessingResults : ProcessFile(s, processingResult)
    \/ FindAccount(s)
    \/ CreateOrUpdate(s)
    \/ EndOfAccounts(s)
    \/ SetCompleted(s)
    \/ CatchError(s)

-----------------------------------------------------------------------------
(* Specifications *)

DbIdle ==
    /\ statementRows = [s \in StatementIds |-> NoStatement]
    /\ bankAccounts = <<>>
    /\ runs = [s \in StatementIds |-> NoRun]

TempIdle ==
    /\ tempFs = [p \in TempPaths |-> NoCaller]
    /\ time = 0
    /\ handlers = [h \in Handlers |-> IdleHandler]

BlocksIdle ==
    /\ ocrPage = [paragraphs |-> AbsentList, tokens |-> AbsentList]
    /\ textBlocks = NotExtracted

UploadIdle ==
    /\ files = {}
    /\ now = 1
    /\ upload = NoUpload

DetectIdle ==
    /\ ocrPages = <<>>
    /\ chosen = NotChosen

SectionIdle ==
    /\ section = [startPage |-> 1, endPage |-> 1, last4 |-> "unknown", pages |-> <<>>]
    /\ processed = NotProcessed

LoaderIdle ==
    /\ env = [available |-> TRUE, config |-> TRUE, creds |-> TRUE, defaultPid |-> "ocr"]
    /\ world = [contents |-> {1}, pids |-> {"ocr"}]
    /\ disk = [k \in Keys |-> NoDoc]
    /\ dp = NewDocumentProcessor
    /\ call = NoCall
    /\ succeeded = {}
    /\ pageCache = EmptyPageCache
    /\ pageCall = NoPageCall

TableIdle ==
    /\ page = <<>>
    /\ request = NoRequest
    /\ table = NullTable

ParserIdle ==
    /\ parser = NoParser
    /\ result = NoResult

RowIdle ==
    /\ tableRow = <<>>
    /\ rowType = NoRowType
    /\ transactions = <<>>

RangeIdle ==
    /\ statement = [pageReferences |-> <<>>, totalPages |-> 0]
    /\ ranges = NoRanges

AccountIdle ==
    /\ firstPage = [rows |-> <<>>, blocks |-> <<>>]
    /\ accounts = NotRead

\* The cache directory outlives a process: entries written by earlier runs may exist.
Init ==
    /\ DbIdle
    /\ TempIdle
    /\ BlocksIdle
    /\ UploadIdle
    /\ DetectIdle
    /\ SectionIdle
    /\ env \in Envs
    /\ world \in Worlds
    /\ disk \in {[k \in Keys |-> NoDoc],
                 [k \in Keys |-> IF k[1] - 100 \in world.contents /\ k[2] \in world.pids
                                 THEN OcrDocument(k[1] - 100, k[2]) ELSE NoDoc]}
    /\ dp = NewDocumentProcessor
    /\ call = NoCall
    /\ succeeded = {}
    /\ pageCache = EmptyPageCache
    /\ pageCall = NoPageCall
    /\ TableIdle
    /\ ParserIdle
    /\ RowIdle
    /\ RangeIdle
    /\ AccountIdle

Next ==
    \/ \E b \in world.contents, p \in world.pids \cup {NoPid}, io \in IoOutcomes :
          ProcessDocument(b, p, io)
    \/ Construct

Spec == Init /\ [][Next]_vars

\* One DocumentProcessor, configured, loading documents and serving their pages
InitPages ==
    /\ DbIdle
    /\ TempIdle
    /\ BlocksIdle
    /\ UploadIdle
    /\ DetectIdle
    /\ SectionIdle
    /\ env = [available |-> TRUE, config |-> TRUE, creds |-> TRUE, defaultPid |-> "ocr"]
    /\ world = [contents |-> Contents, pids |-> {"ocr"}]
    /\ disk = [k \in Keys |-> NoDoc]
    /\ dp = NewDocumentProcessor
    /\ call = NoCall
    /\ succeeded = {}
    /\ pageCache = EmptyPageCache
    /\ pageCall = NoPageCall
    /\ TableIdle
    /\ ParserIdle
    /\ RowIdle
    /\ RangeIdle
    /\ AccountIdle

\* The loads of a run that serves pages: the file is read, and the cache
\* directory and the OCR service work
PageIoOutcomes == {io \in IoOutcomes : io.file /\ io.cacheRead /\ io.cacheWrite /\ io.ocr = "doc"}

NextPages ==
    \/ \E b \in world.contents, io \in PageIoOutcomes : ProcessDocument(b, "ocr", io)
    \/ \E n \in 0..(MaxPageNo + 1) : ProcessPage(n)
    \/ \E n \in 0..(MaxPageNo + 1), t \in TemplateIds : ExtractUsingTemplate(n, t)
    \/ \E n \in 1..MaxPageNo : ClearPageCache(n)
    \/ ClearAllCaches

SpecPages == InitPages /\ [][NextPages]_vars

InitTable ==
    /\ DbIdle
    /\ TempIdle
    /\ BlocksIdle
    /\ UploadIdle
    /\ DetectIdle
    /\ SectionIdle
    /\ LoaderIdle
    /\ ParserIdle
    /\ RowIdle
    /\ RangeIdle
    /\ AccountIdle
    /\ page \in PagesOf(BlockPool, MaxBlocks)
    /\ request = NoRequest
    /\ table = NullTable

NextTable == \E req \in Requests : Reconstruct(req)

SpecTable == InitTable /\ [][NextTable]_vars

\* Blocks that differ only in their vertical centre: 0.10, 0.105, 0.13, 0.15, 0.30
ClusterCentres == {100, 105, 130, 150, 300}

ClusterPages ==
    {[i \in DOMAIN f |-> Block(<<"x">>, f[i] - 5, f[i] + 5, 100)] :
        f \in UNION {[1..n -> ClusterCentres] : n \in 0..MaxClusterBlocks}}

InitCluster ==
    /\ DbIdle
    /\ TempIdle
    /\ BlocksIdle
    /\ UploadIdle
    /\ DetectIdle
    /\ SectionIdle
    /\ LoaderIdle
    /\ ParserIdle
    /\ RowIdle
    /\ RangeIdle
    /\ AccountIdle
    /\ page \in ClusterPages
    /\ request = NoRequest
    /\ table = NullTable

NextCluster == \E v \in Variants : Reconstruct(Unconstrained(v))

SpecCluster == InitCluster /\ [][NextCluster]_vars

InitParser ==
    /\ DbIdle
    /\ TempIdle
    /\ BlocksIdle
    /\ UploadIdle
    /\ DetectIdle
    /\ SectionIdle
    /\ LoaderIdle
    /\ TableIdle
    /\ RowIdle
    /\ RangeIdle
    /\ AccountIdle
    /\ parser \in Parsers
    /\ result = NoResult

NextParser == ProcessStatement

SpecParser == InitParser /\ [][NextParser]_vars

InitRow ==
    /\ DbIdle
    /\ TempIdle
    /\ BlocksIdle
    /\ UploadIdle
    /\ DetectIdle
    /\ SectionIdle
    /\ LoaderIdle
    /\ TableIdle
    /\ ParserIdle
    /\ RangeIdle
    /\ AccountIdle
    /\ tableRow \in Rows(MaxCells)
    /\ rowType = NoRowType
    /\ transactions = <<>>

NextRow == \E type \in TransactionTypes : ProcessRow(type)

SpecRow == InitRow /\ [][NextRow]_vars

InitRanges ==
    /\ DbIdle
    /\ TempIdle
    /\ BlocksIdle
    /\ UploadIdle
    /\ DetectIdle
    /\ SectionIdle
    /\ LoaderIdle
    /\ TableIdle
    /\ ParserIdle
    /\ RowIdle
    /\ AccountIdle
    /\ statement \in Statements
    /\ ranges = NoRanges

NextRanges == ProcessAccountDetailPages

SpecRanges == InitRanges /\ [][NextRanges]_vars

InitAccounts ==
    /\ DbIdle
    /\ TempIdle
    /\ BlocksIdle
    /\ UploadIdle
    /\ DetectIdle
    /\ SectionIdle
    /\ LoaderIdle
    /\ TableIdle
    /\ ParserIdle
    /\ RowIdle
    /\ RangeIdle
    /\ firstPage \in FirstPages
    /\ accounts = NotRead

NextAccounts ==
    \/ ExtractAccountInfoFromTable
    \/ ProcessCombinedStatementPage
    \/ ProcessNonCombinedStatementPage

SpecAccounts == InitAccounts /\ [][NextAccounts]_vars

\* The uploaded files that exist; temporary files of earlier runs are gone
InitUpload ==
    /\ DbIdle
    /\ TempIdle
    /\ BlocksIdle
    /\ LoaderIdle
    /\ TableIdle
    /\ ParserIdle
    /\ RowIdle
    /\ RangeIdle
    /\ AccountIdle
    /\ DetectIdle
    /\ SectionIdle
    /\ files \in SUBSET {LocalPath(src) : src \in {u \in UploadSources : ~IsUrl(u)}}
    /\ now = 1
    /\ upload = NoUpload

NextUpload ==
    \E src \in UploadSources, fileType \in FileTypes, o \in UploadOutcomes :
        ProcessUploadedFile(src, fileType, o)

SpecUpload == InitUpload /\ [][NextUpload]_vars

InitDetect ==
    /\ DbIdle
    /\ TempIdle
    /\ BlocksIdle
    /\ LoaderIdle
    /\ TableIdle
    /\ ParserIdle
    /\ RowIdle
    /\ RangeIdle
    /\ AccountIdle
    /\ UploadIdle
    /\ SectionIdle
    /\ ocrPages \in OcrDocuments
    /\ chosen = NotChosen

NextDetect == \E loaded \in BOOLEAN : SelectParser(loaded)

SpecDetect == InitDetect /\ [][NextDetect]_vars

InitSection ==
    /\ DbIdle
    /\ TempIdle
    /\ BlocksIdle
    /\ LoaderIdle
    /\ TableIdle
    /\ ParserIdle
    /\ RowIdle
    /\ RangeIdle
    /\ AccountIdle
    /\ UploadIdle
    /\ DetectIdle
    /\ section \in Sections
    /\ processed = NotProcessed

NextSection == ProcessTransactionTables

SpecSection == InitSection /\ [][NextSection]_vars

InitBlocks ==
    /\ DbIdle
    /\ TempIdle
    /\ UploadIdle
    /\ DetectIdle
    /\ SectionIdle
    /\ LoaderIdle
    /\ TableIdle
    /\ ParserIdle
    /\ RowIdle
    /\ RangeIdle
    /\ AccountIdle
    /\ ocrPage \in [paragraphs : UnitLists, tokens : UnitLists]
    /\ textBlocks = NotExtracted

NextBlocks == ExtractTextBlocksWithPositions

SpecBlocks == InitBlocks /\ [][NextBlocks]_vars

InitTemp ==
    /\ DbIdle
    /\ TempIdle
    /\ BlocksIdle
    /\ UploadIdle
    /\ DetectIdle
    /\ SectionIdle
    /\ LoaderIdle
    /\ TableIdle
    /\ ParserIdle
    /\ RowIdle
    /\ RangeIdle
    /\ AccountIdle

NextTemp ==
    \/ Tick
    \/ \E h \in Handlers, ft \in FileTypes : FetchUrl(h, ft)
    \/ \E h \in Handlers : WriteTempFile(h)
    \/ \E h \in Handlers : ReadForOcr(h)
    \/ \E h \in Handlers : UnlinkTempFile(h)

SpecTemp == InitTemp /\ [][NextTemp]_vars

InitStatements ==
    /\ DbIdle
    /\ TempIdle
    /\ BlocksIdle
    /\ UploadIdle
    /\ DetectIdle
    /\ SectionIdle
    /\ LoaderIdle
    /\ TableIdle
    /\ ParserIdle
    /\ RowIdle
    /\ RangeIdle
    /\ AccountIdle

NextStatements ==
    \/ \E s \in StatementIds : Upload(s)
    \/ \E s \in StatementIds : ProcessMutation(s)
    \/ \E s \in StatementIds : TaskStep(s)

SpecStatements == InitStatements /\ [][NextStatements]_vars

\* A mutation that was started runs on: the event loop resumes a task whose
\* awaited call has resolved. Whether a user calls upload or process is free.
SpecStatementsFair ==
    SpecStatements /\ \A s \in StatementIds : WF_vars(TaskStep(s))

-----------------------------------------------------------------------------
(* Claims about the document loader *)

Called == call.how # "none"

CallKey == CacheFile(Hash(call.bytes), call.pid)

\* C1 as stated: after processDocument has succeeded once for bytes B with processor
\* P, every later call with the same B (the file is read) and P returns true, is
\* served from the cache entry (hash(B), P) and makes no OCR call.
C1_Original ==
    (Called /\ call.before /\ call.how # "fileError") =>
        (call.ret /\ call.how = "cacheHit" /\ call.ocrCalls = 0)

\* C1 amended: after a success for B with P whose cache entry (hash(B), P) is on disk,
\* a later call with the same B and P that reads the file and the entry without an
\* I/O error returns true, loads the document stored in that entry and makes no OCR
\* call.
C1_CacheHitAfterSuccess ==
    (Called /\ call.before /\ call.entry /\ ~call.readError /\ call.how # "fileError") =>
        /\ call.ret
        /\ call.how = "cacheHit"
        /\ call.ocrCalls = 0
        /\ dp.document = disk[CallKey]

\* C1 witness: a call after an earlier success was served from the cache entry.
C1_Witness ==
    call.before /\ call.entry /\ call.how = "cacheHit" /\ call.ret /\ call.ocrCalls = 0

\* C2 as stated: processDocument never raises, calls the OCR service at most once,
\* and returns false whenever the OCR module, the credentials or the processor ID
\* are missing, the external call throws, or no document is returned.
C2_Original ==
    Called =>
        /\ ~call.raised
        /\ call.ocrCalls <= 1
        /\ (~env.available \/ ~env.creds \/ call.pid = NoPid) => ~call.ret
        /\ call.how \in {"ocrThrew", "noDocument"} => ~call.ret

\* C2 amended: processDocument never raises and calls the OCR service at most once;
\* it returns false when the OCR module or the processor ID is missing, when the
\* external call throws or returns no document, and, unless the call is served from
\* the on-disk cache, when the credentials or the project configuration are missing
\* (and then the service is not called).
C2_NeverRaisesNoRetry ==
    Called =>
        /\ ~call.raised
        /\ call.ocrCalls <= 1
        /\ (~env.available \/ call.pid = NoPid) => (~call.ret /\ call.ocrCalls = 0)
        /\ ((~env.creds \/ ~env.config) /\ call.how # "cacheHit") =>
               (~call.ret /\ call.ocrCalls = 0)
        /\ call.how \in {"ocrThrew", "noDocument"} => ~call.ret

\* C2 witness: with the credentials missing the client could not be created and
\* the call returned false without raising.
C2_Witness ==
    /\ env.available /\ ~env.creds /\ call.pid # NoPid
    /\ call.how = "initError" /\ ~call.ret /\ ~call.raised

\* C3 as stated: an I/O failure reading the cache entry, or writing it after a
\* successful OCR call, makes processDocument return false.
C3_Original ==
    (Called /\ (call.readError \/ call.how = "ocrNotStored")) => ~call.ret

\* C3 amended: a failure reading the source file makes processDocument return false;
\* a failure reading the cache entry is treated as a cache miss (the call goes on to
\* the OCR service and returns what that path returns), and a failure writing the
\* entry after a successful OCR call is only logged: the call returns true with the
\* OCR document loaded and the cache left as it was.
C3_CacheErrorsTolerated ==
    Called =>
        /\ call.how = "fileError" => ~call.ret
        /\ call.readError =>
              /\ call.how \in {"initError", "ocrThrew", "noDocument", "ocrStored", "ocrNotStored"}
              /\ call.ret <=> call.how \in {"ocrStored", "ocrNotStored"}
        /\ call.how = "ocrNotStored" =>
              /\ call.ret
              /\ dp.document = OcrDocument(call.bytes, dp.processorName)
              /\ disk[CallKey] # dp.document \/ call.entry

\* C3 witness: the cache read failed, the OCR call succeeded, the cache write
\* failed and the call returned true.
C3_Witness ==
    call.how = "ocrNotStored" /\ call.ret /\ call.readError

-----------------------------------------------------------------------------
(* Claims about table reconstruction *)

Reconstructed == request # NoRequest

Range(seq) == {seq[k] : k \in 1..Len(seq)}

\* The rows of the whole page, as row clustering forms them
PageRows == GroupRows([i \in 1..Len(page) |-> i], page)

\* Does the row's text contain the phrase, compared as the anchor search compares
\* (without regard to letter case)?
RowContains(row, phrase) ==
    Includes(ToLowerCase(RowText(row, page)), ToLowerCase(phrase))

TopAnchorAbsent ==
    /\ request.variant = "transactions"
    /\ request.topAnchor # <<>>
    /\ \A k \in 1..Len(PageRows) : ~RowContains(PageRows[k], request.topAnchor)

\* C5: extractFullTableDataForTransactions returns null, and neither raises nor
\* returns an empty rows array, whenever a topAnchor phrase is given and no row of
\* the page contains that phrase.
C5_MissingTopAnchorIsNull ==
    TopAnchorAbsent => table.kind = "null"

\* C5 witness: a page of several rows, none with the requested top anchor, for
\* which the transaction variant returned null.
C5_Witness ==
    /\ TopAnchorAbsent
    /\ Len(PageRows) >= 2
    /\ table.kind = "null"

\* The sign of (vertical centre of the blocks in row) - bound, times a positive number
CentreMinus(row, bound) ==
    SumOf(row, CentersY2(page)) * bound.den - 2 * Len(row) * bound.num

AtOrBelowTop(row) ==
    \/ table.y1 = NoBound
    \/ IF request.topMode = "inclusive" THEN CentreMinus(row, table.y1) >= 0
                                        ELSE CentreMinus(row, table.y1) > 0

AtOrAboveBottom(row) ==
    \/ table.y2 = NoBound
    \/ IF request.bottomMode = "inclusive" THEN CentreMinus(row, table.y2) <= 0
                                           ELSE CentreMinus(row, table.y2) < 0

Returned(row) == \E k \in 1..Len(table.rows) : Range(table.rows[k]) = Range(row)

\* Rows the boundary rule is asked about: for transaction tables the rows of the
\* page; for generic tables, whose blocks are filtered one by one before rows
\* are formed and whose rows need MinCells cells, the rows of blocks that share
\* one centre.
CandidateRows ==
    IF request.variant = "transactions" THEN Range(PageRows)
    ELSE {PageRows[k] : k \in {j \in 1..Len(PageRows) :
              /\ Len(PageRows[j]) >= MinCells
              /\ \A a, b \in Range(PageRows[j]) : CenterY2(page[a]) = CenterY2(page[b])}}

TopAboveBottom ==
    /\ table.kind = "table"
    /\ \/ table.y1 = NoBound
       \/ table.y2 = NoBound
       \/ table.y1.num * table.y2.den < table.y2.num * table.y1.den

Flatten(rows) == Join(rows)

SameRow(i, j) == \E k \in 1..Len(table.rowGroups) : {i, j} \subseteq Range(table.rowGroups[k])

CentresOf(row) == [k \in 1..Len(row) |-> CenterY2(page[row[k]])]

\* C7: row clustering is one pass over the blocks in order of vertical centre:
\* the rows partition the blocks, two blocks adjacent in that order are in the
\* same row exactly when their centres are at most 0.02 apart, and blocks with
\* centres 0.10, 0.105, 0.13, 0.30 form the three rows {0.10, 0.105}, {0.13}, {0.30}.
C7_GreedyRowClustering ==
    (Reconstructed /\ request = Unconstrained(request.variant)) =>
        LET order == Flatten(table.rowGroups) IN
        /\ table.kind = "table"
        /\ Len(order) = Len(page)
        /\ Range(order) = 1..Len(page)
        /\ \A k \in 1..Len(table.rowGroups) : table.rowGroups[k] # <<>>
        /\ \A k \in 1..(Len(order) - 1) :
              /\ CenterY2(page[order[k]]) <= CenterY2(page[order[k + 1]])
              /\ SameRow(order[k], order[k + 1])
                    <=> CenterY2(page[order[k + 1]]) - CenterY2(page[order[k]]) <= 2 * RowGap
        /\ CentresOf(SortBy([i \in 1..Len(page) |-> i], CentersY2(page))) = <<200, 210, 260, 600>>
              => [k \in 1..Len(table.rowGroups) |-> CentresOf(table.rowGroups[k])]
                    = << <<200, 210>>, <<260>>, <<600>> >>

\* C7 witness: the blocks 0.13, 0.30, 0.105, 0.10, given out of order, were
\* clustered into three rows.
C7_Witness ==
    /\ Reconstructed
    /\ CentresOf([i \in 1..Len(page) |-> i]) = <<260, 600, 210, 200>>
    /\ Len(table.rowGroups) = 3

-----------------------------------------------------------------------------
(* Claims about the parsers *)

Processed == result # NoResult

LoadFailed == parser.kind # "Generic" /\ ~parser.hasProcessor /\ ~parser.loadOk

\* The steps of the run that completed before anything raised
PeriodExtracted ==
    /\ parser.kind # "Generic" /\ ~LoadFailed
    /\ parser.script.page = "ok" /\ parser.script.period = "ok"

AccountsExtracted ==
    /\ parser.kind = "Bank of America"
    /\ PeriodExtracted /\ parser.script.accounts = "ok"

DetailsProcessed == AccountsExtracted /\ parser.script.details = "ok"

\* C4: process() of every parser never raises; when loading the document fails
\* it returns the base result (accounts = [], null period dates); when a page or
\* table step raises it returns the data accumulated by the steps before it.
C4_ProcessNeverRaises ==
    Processed =>
        /\ ~result.raised
        /\ result.data.bankName = parser.kind
        /\ LoadFailed => result.data = BaseData(parser.kind)
        /\ result.data.statementPeriodStartDate = (IF PeriodExtracted THEN "set" ELSE "null")
        /\ result.data.statementPeriodEndDate = (IF PeriodExtracted THEN "set" ELSE "null")
        /\ Len(result.data.accounts) = (IF AccountsExtracted THEN 1 ELSE 0)
        /\ \A k \in 1..Len(result.data.accounts) :
              result.data.accounts[k].transactions <=> DetailsProcessed

\* C4 witness: the Bank of America parser got the statement period, the account
\* extraction raised, and process() returned the data with the period and no
\* accounts.
C4_Witness ==
    /\ Processed /\ ~result.raised
    /\ parser.kind = "Bank of America"
    /\ parser.script.page = "ok" /\ parser.script.period = "ok"
    /\ parser.script.accounts = "throws"
    /\ result.data.statementPeriodStartDate = "set"
    /\ result.data.accounts = <<>>

\* C4 witness of the load failure: no processor was passed, the parser's own
\* load failed and the base result came back.
C4_LoadFailureWitness ==
    Processed /\ LoadFailed /\ result.data = BaseData(parser.kind)

-----------------------------------------------------------------------------
(* Claims about transaction rows *)

\* C8 as stated: every transaction produced with type WITHDRAWAL or ATM_DEBIT has
\* amount <= 0 whenever its amount is non-null, and every transaction produced
\* with type DEPOSIT has amount >= 0, whatever the row's text.
C8_Original ==
    \A k \in 1..Len(transactions) :
        LET t == transactions[k] IN
        /\ (t.type \in {"WITHDRAWAL", "ATM_DEBIT"} /\ ~t.amount.isNull) => t.amount.cents <= 0
        /\ (t.type = "DEPOSIT" /\ ~t.amount.isNull) => t.amount.cents >= 0

\* C8, the part that holds: a transaction of type WITHDRAWAL or ATM_DEBIT has a
\* non-positive amount; a DEPOSIT keeps the sign extractAmount read from the
\* cell, negative when the cell holds a minus sign or parentheses.
C8_WithdrawalsNonPositive ==
    \A k \in 1..Len(transactions) :
        LET t == transactions[k] IN
        /\ t.type = rowType
        /\ (t.type \in {"WITHDRAWAL", "ATM_DEBIT"} /\ ~t.amount.isNull) => t.amount.cents <= 0

\* C8: a deposit row whose amount cell holds a minus sign gave a negative DEPOSIT.
C8_NegativeDeposit ==
    /\ rowType = "DEPOSIT"
    /\ tableRow = << <<"01/02/24">>, <<"ACH">>, <<"-", "12.34">> >>
    /\ Len(transactions) = 1
    /\ transactions[1].amount.cents = -1234

\* The transaction the row loop of the table reads from the row
RowTransaction ==
    ExtractTransactionFromRow(
        IF rowType = "DEPOSIT" THEN TransactionData(tableRow) ELSE tableRow, rowType)

\* C11: a transaction whose parsed amount is null is discarded: the row loops of
\* the deposits, withdrawals and ATM/debit tables push no transaction with a null
\* amount, so no category of allTransactions receives one.
C11_NullAmountDiscarded ==
    /\ \A k \in 1..Len(transactions) : ~transactions[k].amount.isNull
    /\ (rowType # NoRowType /\ RowTransaction.amount.isNull) => transactions = <<>>

\* C11 witness: a withdrawals row with a date and a description but no amount
\* passed the header check, its amount was parsed as null and nothing was pushed.
C11_Witness ==
    /\ rowType = "WITHDRAWAL"
    /\ tableRow = << <<"01/02/24">>, <<"ACH">> >>
    /\ ~IsHeaderRow(tableRow).isHeader
    /\ RowTransaction.amount.isNull
    /\ transactions = <<>>

-----------------------------------------------------------------------------
(* Claims about account page ranges *)

RangesComputed == ranges # NoRanges

Pages(r) == r.startPage..r.endPage

\* C9 as stated: with the accounts sorted by pageReference, each is processed over
\* [its pageReference, next account's pageReference - 1] and the last over
\* [its pageReference, pageCount], so that for any accounts the ranges are
\* contiguous, pairwise non-overlapping and end at the last page.
C9_Original ==
    RangesComputed =>
        /\ \A k \in 1..Len(ranges) :
              ranges[k].startPage = statement.pageReferences[ranges[k].account]
        /\ \A k \in 1..(Len(ranges) - 1) :
              ranges[k].endPage = ranges[k + 1].startPage - 1
        /\ \A j, k \in 1..Len(ranges) : j # k => Pages(ranges[j]) \cap Pages(ranges[k]) = {}
        /\ Len(ranges) > 0 => ranges[Len(ranges)].endPage = statement.totalPages

\* C9, the example: pageReference values [3, 7, 12] with 15 pages give
\* [3,6], [7,11], [12,15].
C9_Example ==
    (RangesComputed /\ statement = [pageReferences |-> <<3, 7, 12>>, totalPages |-> 15]) =>
        ranges = << [account |-> 1, startPage |-> 3, endPage |-> 6],
                    [account |-> 2, startPage |-> 7, endPage |-> 11],
                    [account |-> 3, startPage |-> 12, endPage |-> 15] >>

\* C9: two accounts that both refer to page 1 of a 3-page document were both
\* processed over pages 1 to 3.
C9_OverlappingRanges ==
    /\ statement = [pageReferences |-> <<1, 1>>, totalPages |-> 3]
    /\ ranges = << [account |-> 1, startPage |-> 1, endPage |-> 3],
                   [account |-> 2, startPage |-> 1, endPage |-> 3] >>

-----------------------------------------------------------------------------
(* Claims about account numbers *)

AccountsRead == accounts # NotRead

FourDecimalDigits(n) == Len(n) = 4 /\ \A i \in 1..4 : n[i] \in Digits

\* C10 as stated: each account's accountNumberLast4 is exactly four decimal
\* digits or the sentinel "unknown", whatever the cells of the account summary
\* table hold.
C10_Original ==
    AccountsRead =>
        \A k \in 1..Len(accounts) :
            \/ FourDecimalDigits(accounts[k].accountNumberLast4)
            \/ accounts[k].accountNumberLast4 = Unknown

\* C10, the part that holds: an account read from the page text has four
\* decimal digits or "unknown"; one read from the summary table has the last
\* digits of its cell, at most four and possibly none.
C10_TextAccountsWellFormed ==
    AccountsRead =>
        \A k \in 1..Len(accounts) :
            LET n == accounts[k].accountNumberLast4 IN
            /\ firstPage.rows = <<>> => (FourDecimalDigits(n) \/ n = Unknown)
            /\ firstPage.rows # <<>> => (Len(n) <= 4 /\ \A i \in 1..Len(n) : n[i] \in Digits)

\* C10: the account-number cell "Acct 123" gave the account number "123".
C10_ShortAccountNumber ==
    /\ AccountsRead
    /\ Len(firstPage.rows) = 1
    /\ Len(firstPage.rows[1]) = 4
    /\ firstPage.rows[1][2] = <<"A", "c", "c", "t", " ", "1", "2", "3">>
    /\ Len(accounts) = 1
    /\ accounts[1].accountNumberLast4 = <<"1", "2", "3">>

\* The page of the single-account scenario: no combined-statement phrase, the
\* one account-number occurrence "Account Number: ****1234", and "Savings"
SingleAccountScenario ==
    /\ firstPage.rows = <<>>
    /\ \/ firstPage.blocks = << <<"Account", "Number", ":", "****1234">>, <<"Savings">> >>
       \/ firstPage.blocks = << <<"Savings">>, <<"Account", "Number", ":", "****1234">> >>

\* C12 as stated: for that page the parser returns exactly one Account, with
\* accountNumberLast4 = "1234" and pageReference = 1.
C12_Original ==
    (AccountsRead /\ SingleAccountScenario) =>
        accounts = << [accountNumberLast4 |-> <<"1", "2", "3", "4">>, pageReference |-> 1] >>

\* C12, the part that holds: a first page that is not a combined statement gives
\* exactly one Account with pageReference = 1, whose accountNumberLast4 is four
\* digits only when a block holds 'account' followed by at least eight digits in
\* groups of four and a block names the account type 'Adv Plus Banking'.
C12_SingleAccountOnPageOne ==
    (AccountsRead /\ ~IsCombinedStatementPage(firstPage.blocks)) =>
        /\ Len(accounts) = 1
        /\ accounts[1].pageReference = 1
        /\ accounts[1].accountNumberLast4 # Unknown =>
              /\ \E k \in 1..Len(firstPage.blocks) : AccountMatch(firstPage.blocks[k]) # <<>>
              /\ \E k \in 1..Len(firstPage.blocks) :
                    Includes(ToLowerCase(firstPage.blocks[k]), <<"adv", "plus", "banking">>)

\* C12: the page of the scenario gave one Account with accountNumberLast4
\* "unknown" and pageReference 1.
C12_UnknownAccount ==
    /\ AccountsRead /\ SingleAccountScenario
    /\ accounts = << [accountNumberLast4 |-> Unknown, pageReference |-> 1] >>

\* A page with an account number and the account type gave that account.
C12_KnownAccount ==
    /\ AccountsRead /\ ~IsCombinedStatementPage(firstPage.blocks)
    /\ accounts = << [accountNumberLast4 |-> <<"5", "6", "7", "8">>, pageReference |-> 1] >>

\* The number in the row's "page N" cell (the first cell that reads so), NoPage
\* when the row has none
PageNumberInRow(row) ==
    LET cells == {k \in 1..Len(row) : PageReferenceOf(row[k]) # NoPage}
    IN  IF cells = {} THEN NoPage ELSE PageReferenceOf(row[First(cells)])

HasAccountNumberCell(row) == CellAt(FilteredRow(row), AccountNumIdx) # <<>>

YieldsNoAccount(row) == IsTotalRow(row) \/ IsPureHeaderRow(row)

YieldsOneAccount(row) ==
    ~YieldsNoAccount(row) /\ HasAccountNumberCell(row) /\ PageNumberInRow(row) # NoPage

RECURSIVE ExpectedPageReferences(_)
\* The pageReference values the rows are to give, row by row
ExpectedPageReferences(rows) ==
    IF rows = <<>> THEN <<>>
    ELSE (IF YieldsNoAccount(Head(rows)) THEN <<>> ELSE <<PageNumberInRow(Head(rows))>>)
         \o ExpectedPageReferences(Tail(rows))

SummaryTableRead ==
    AccountsRead /\ IsCombinedStatementPage(firstPage.blocks) /\ firstPage.rows # <<>>

\* C13 as stated: on a combined statement's first page each reconstructed row
\* that is neither a total row nor a pure header row and has an account-number
\* cell yields exactly one Account whose pageReference is the number in the
\* row's "page N" cell; total rows and pure header rows yield none. (Stated for
\* the tables all of whose rows are of these kinds.)
C13_Original ==
    (/\ SummaryTableRead
     /\ \A k \in 1..Len(firstPage.rows) :
           YieldsNoAccount(firstPage.rows[k]) \/ YieldsOneAccount(firstPage.rows[k]))
    => [k \in 1..Len(accounts) |-> accounts[k].pageReference]
          = ExpectedPageReferences(firstPage.rows)

\* C13, the part that holds: the same for the tables in which every row that
\* yields an account has, once its header cells are taken out, one cell under
\* each header of the table.
C13_AlignedRows ==
    (/\ SummaryTableRead
     /\ \A k \in 1..Len(firstPage.rows) :
           \/ YieldsNoAccount(firstPage.rows[k])
           \/ /\ YieldsOneAccount(firstPage.rows[k])
              /\ Len(FilteredRow(firstPage.rows[k])) = Len(SummaryHeaders))
    => [k \in 1..Len(accounts) |-> accounts[k].pageReference]
          = ExpectedPageReferences(firstPage.rows)

\* C13: a row without a balance cell, "Adv | 1234 | page 3", gave an Account
\* whose pageReference is undefined.
C13_ShiftedPageCell ==
    /\ SummaryTableRead
    /\ firstPage.rows = << << <<"Adv">>, <<"1", "2", "3", "4">>, <<"page", " ", "3">> >> >>
    /\ accounts = << [accountNumberLast4 |-> <<"1", "2", "3", "4">>, pageReference |-> NoPage] >>

\* A table of a header row clustered into an account row, an account row and
\* a total row gave two Accounts, on pages 3 and 7.
C13_TwoAccounts ==
    /\ SummaryTableRead
    /\ Len(firstPage.rows) = 2
    /\ Len(firstPage.rows[1]) = 5
    /\ Len(accounts) = 2
    /\ accounts[1].pageReference = 3
    /\ accounts[2].pageReference = 7

-----------------------------------------------------------------------------
(* Claims about the page cache *)

\* Was pageNumber a page of the document loaded when the call was made?
ValidPage ==
    /\ pageCall.document # 0
    /\ pageCall.pageNumber >= 1
    /\ pageCall.pageNumber <= PageCountOf(pageCall.document)

FreshPage(pg) == \A t \in TemplateIds : pg.extractedData[t] = NoExtraction

\* C14: processPage(n) returns null and leaves the page cache unchanged when no
\* document is loaded or n < 1 or n > pageCount; for a valid n a call that
\* finds no page n in the cache builds the page and caches it, and a call that
\* finds one returns that cached ProcessedPage without rebuilding it.
C14_ProcessPageBoundsAndCache ==
    pageCall.op = "processPage" =>
        /\ ~ValidPage => (pageCall.page = NullPage /\ ~pageCall.built /\ ~pageCall.cacheChanged)
        /\ (ValidPage /\ pageCall.before = NullPage) =>
              /\ pageCall.built
              /\ pageCall.page # NullPage
              /\ pageCall.page.pageNumber = pageCall.pageNumber
              /\ pageCall.page.of = pageCall.document
              /\ FreshPage(pageCall.page)
              /\ pageCache[pageCall.pageNumber] = pageCall.page
        /\ (ValidPage /\ pageCall.before # NullPage) =>
              /\ ~pageCall.built
              /\ pageCall.page = pageCall.before
              /\ ~pageCall.cacheChanged

\* C14 witness: with a one-page document loaded, processPage(2) found page 2
\* (of an earlier, longer document) in the cache and still returned null.
C14_Witness ==
    /\ pageCall.op = "processPage"
    /\ pageCall.document = 2 /\ pageCall.pageNumber = 2
    /\ pageCall.before # NullPage
    /\ pageCall.page = NullPage
    /\ pageCache[2] = pageCall.before

\* A second processPage(1) returned the page the first one built, with the
\* extraction stored in it since.
C14_CachedPageWitness ==
    /\ pageCall.op = "processPage" /\ pageCall.pageNumber = 1
    /\ ~pageCall.built
    /\ pageCall.page.of = pageCall.document
    /\ ~FreshPage(pageCall.page)

\* C15 as stated: the page cache is scoped to the loaded document: processPage(n)
\* returns a page built from the document that is loaded, never one cached
\* from a document loaded before.
C15_Original ==
    (pageCall.op = "processPage" /\ pageCall.page # NullPage) =>
        pageCall.page.of = pageCall.document

\* C15, what holds instead: the page returned is the cached one whichever
\* document it was built from, and is built from the loaded document only when
\* the cache held no page of that number.
C15_CacheKeyedByPageNumberOnly ==
    (pageCall.op = "processPage" /\ pageCall.page # NullPage) =>
        /\ pageCall.before # NullPage => pageCall.page = pageCall.before
        /\ pageCall.before = NullPage => pageCall.page.of = pageCall.document

\* C15: with document 2 loaded after document 1, processPage(1) returned the
\* page 1 that was built from document 1.
C15_StalePage ==
    /\ pageCall.op = "processPage" /\ pageCall.pageNumber = 1
    /\ pageCall.document = 2
    /\ dp.document.content = 2
    /\ pageCall.page.of = 1

\* Could processPage process the page when the call was made?
Processable == ValidPage

\* C16 as stated: extractUsingTemplate is memoized per (pageNumber, template.id):
\* it returns null when the page cannot be processed; on a processable page a
\* call that finds no stored result scans the page's text blocks and stores the
\* result in that page's extractedData, and a call that finds one returns it
\* without rescanning.
C16_Original ==
    pageCall.op = "extractUsingTemplate" =>
        /\ ~Processable => pageCall.extraction = NoExtraction
        /\ Processable =>
              /\ pageCall.extraction # NoExtraction
              /\ pageCall.extraction.of = pageCall.document
              /\ pageCall.extraction.page = pageCall.pageNumber
              /\ pageCall.extraction.template = pageCall.template
              /\ pageCache[pageCall.pageNumber].extractedData[pageCall.template]
                    = pageCall.extraction
              /\ pageCall.scanned
                    <=> pageCall.before.extractedData[pageCall.template] = NoExtraction

\* C16, the part that holds: the same with 'the page' read as the ProcessedPage
\* the cache holds under that number, or else the one processPage builds: null
\* only when there is neither, otherwise a scan of that page on the first call
\* for the template id and the stored result on every later one.
C16_MemoizedPerCachedPage ==
    pageCall.op = "extractUsingTemplate" =>
        LET known == pageCall.before # NullPage \/ Processable IN
        /\ ~known => (pageCall.extraction = NoExtraction /\ ~pageCall.cacheChanged)
        /\ known =>
              /\ pageCall.extraction # NoExtraction
              /\ pageCall.extraction.page = pageCall.pageNumber
              /\ pageCall.extraction.template = pageCall.template
              /\ pageCall.extraction.of = pageCall.page.of
              /\ pageCache[pageCall.pageNumber].extractedData[pageCall.template]
                    = pageCall.extraction
              /\ pageCall.scanned
                    <=> pageCall.before.extractedData[pageCall.template] = NoExtraction
              /\ pageCall.built <=> pageCall.before = NullPage

\* C16: with a one-page document loaded, extractUsingTemplate(2, t) returned
\* what it found on page 2 of the document loaded before.
C16_StaleExtraction ==
    /\ pageCall.op = "extractUsingTemplate"
    /\ pageCall.document = 2 /\ pageCall.pageNumber = 2
    /\ pageCall.extraction # NoExtraction
    /\ pageCall.extraction.of = 1

\* A second extractUsingTemplate(1, t) returned the stored result unscanned.
C16_MemoWitness ==
    /\ pageCall.op = "extractUsingTemplate"
    /\ pageCall.extraction # NoExtraction
    /\ ~pageCall.scanned /\ ~pageCall.built /\ ~pageCall.cacheChanged

-----------------------------------------------------------------------------
(* Claims about processUploadedFile *)

\* The positions in the last call's trace of the file operations of one kind
OpsOf(op) == {i \in DOMAIN upload.trace : upload.trace[i].op = op}

C17_LocalWitness ==
    /\ ~upload.isUrl /\ upload.exit = "success"
    /\ OpsOf("processStatement") # {}
    /\ LocalPath(upload.source) \in files

\* writeFile rejected after it had created the file: needsCleanup is still
\* false, no unlink is attempted and the partial file stays.
C17_PartialWriteLeft ==
    /\ upload.isUrl /\ ~upload.created /\ upload.exit = "catch"
    /\ OpsOf("unlink") = {}
    /\ upload.tempFilePath \in files

-----------------------------------------------------------------------------
(* Claims about anchors left out of a transaction table *)

\* The rows of the page the anchor searches settle on (0 when none)
TopAnchorRow == TopAnchorRowIndex(PageRows, page, request.topAnchor)

BottomAnchorRow == BottomAnchorRowIndex(PageRows, page, request.bottomAnchor)

\* A transaction table was reconstructed with includeAnchors = false
ExcludingAnchors ==
    /\ Reconstructed
    /\ request.variant = "transactions"
    /\ ~request.includeAnchors
    /\ table.kind = "table"

SameBound(a, b) == a.num * b.den = b.num * a.den

\* C18 as stated: with includeAnchors = false an accepted top anchor puts the top
\* bound at the bottom edge of the anchor row itself, so that neither the anchor
\* row nor a row above it is returned; an excluded bottom anchor puts the bottom
\* bound at the top edge of its row, so that neither that row nor a row below it
\* is returned.
C18_Original ==
    ExcludingAnchors =>
        /\ request.topAnchor # <<>> =>
              /\ SameBound(table.y1, AvgY2(PageRows[TopAnchorRow], page))
              /\ \A k \in 1..TopAnchorRow : ~Returned(PageRows[k])
        /\ request.bottomAnchor # <<>> =>
              /\ SameBound(table.y2, AvgY1(PageRows[BottomAnchorRow], page))
              /\ \A k \in BottomAnchorRow..Len(PageRows) : ~Returned(PageRows[k])

\* C18, what holds: the bottom half as stated; the top bound is the bottom edge
\* of the row before the anchor row, and a table is returned only when there is
\* such a row.
C18_BoundsAsComputed ==
    ExcludingAnchors =>
        /\ request.topAnchor # <<>> =>
              /\ TopAnchorRow >= 2
              /\ SameBound(table.y1, AvgY2(PageRows[TopAnchorRow - 1], page))
        /\ request.bottomAnchor # <<>> =>
              /\ SameBound(table.y2, AvgY1(PageRows[BottomAnchorRow], page))
              /\ \A k \in BottomAnchorRow..Len(PageRows) : ~Returned(PageRows[k])

\* C18: the top anchor was to be left out, and its row is the first row of the
\* table that came back.
C18_AnchorRowReturned ==
    /\ ExcludingAnchors
    /\ request.topAnchor # <<>>
    /\ Len(table.rows) >= 2
    /\ Range(table.rows[1]) = Range(PageRows[TopAnchorRow])

\* The bottom anchor row was left out and the rows above it were returned.
C18_BottomAnchorLeftOut ==
    /\ ExcludingAnchors
    /\ request.bottomAnchor # <<>>
    /\ ~Returned(PageRows[BottomAnchorRow])
    /\ Len(table.rows) >= 1

-----------------------------------------------------------------------------
(* Claims about bank detection *)

\* processStatement got as far as choosing a parser
ParserChosen == chosen.returned = "parsed"

\* C19 as stated: processStatement chooses the parser from the text of the first
\* page only: the first of Bank of America, Chase, Wells Fargo, Citibank,
\* Capital One whose keyword is on that page, "Unknown" when none is; text on
\* later pages has no part in it; Bank of America and Chase get their own
\* parsers and every other name the generic one.
C19_Original ==
    ParserChosen =>
        /\ chosen.bankName = DetectBank(PageText(ocrPages[1]))
        /\ chosen.parser = ParserFor(chosen.bankName)

\* C19, what holds: the same precedence and the same parsers, with the keywords
\* looked for in the text of the whole document.
C19_DetectedOnDocumentText ==
    ParserChosen =>
        /\ chosen.bankName = DetectBank(DocumentText(ocrPages))
        /\ chosen.bankName \in Range(BankNames) =>
              /\ PatternTest(chosen.bankName, DocumentText(ocrPages))
              /\ \A k \in DOMAIN BankNames :
                    PatternTest(BankNames[k], DocumentText(ocrPages))
                        => \E j \in 1..k : BankNames[j] = chosen.bankName
        /\ chosen.bankName = "Bank of America" <=> chosen.parser = "BankOfAmericaStatementParser"
        /\ chosen.bankName = "Chase" <=> chosen.parser = "ChaseStatementParser"
        /\ chosen.bankName \notin {"Bank of America", "Chase"}
              <=> chosen.parser = "GenericBankStatementParser"
        /\ Len(ocrPages) = 1 => chosen.bankName = DetectBank(PageText(ocrPages[1]))

\* C19: the first page names Wells Fargo, a later page mentions Bank of America,
\* and the statement went to the Bank of America parser.
C19_LaterPageDecides ==
    /\ ParserChosen
    /\ Len(ocrPages) = 2
    /\ DetectBank(PageText(ocrPages[1])) = "Wells Fargo"
    /\ PatternTest("Bank of America", PageText(ocrPages[2]))
    /\ chosen.parser = "BankOfAmericaStatementParser"

\* A first page with the keywords of Citibank and Chase went to the Chase parser.
C19_Precedence ==
    /\ ParserChosen
    /\ Len(ocrPages) = 1
    /\ PatternTest("Citibank", PageText(ocrPages[1]))
    /\ chosen.bankName = "Chase"
    /\ chosen.parser = "ChaseStatementParser"

-----------------------------------------------------------------------------
(* Claims about the end of an account's section *)

SectionProcessed == processed # NotProcessed

\* Page p of the document has an account-number mention without the account's
\* last four digits
ForeignMention(p) ==
    /\ p \in DOMAIN section.pages
    /\ \E k \in DOMAIN section.pages[p] :
          /\ AccountReference(section.pages[p][k])
          /\ ~BlockIncludes(section.pages[p][k], section.last4)

\* The pages after the start page that end the section
StopPages ==
    {p \in (section.startPage + 1)..section.endPage : ForeignMention(p)}

C20_OwnNumberWitness ==
    /\ SectionProcessed
    /\ section.startPage = 1 /\ section.endPage = 3 /\ section.last4 = "1234"
    /\ Len(section.pages) = 3
    /\ section.pages[2] = << <<"Account", "number", ":", "5678", "from", "1234">> >>
    /\ processed = <<1, 2, 3>>

-----------------------------------------------------------------------------
(* Claims about the text blocks of a page *)

BlocksExtracted == textBlocks # NotExtracted

NoParagraphs == ocrPage.paragraphs.items = <<>>

\* C21 as stated: when the page has no paragraphs (the list is absent or empty)
\* and has tokens, the text blocks are built from the tokens; when it has
\* paragraphs no block comes from a token.
C21_Original ==
    BlocksExtracted =>
        /\ (NoParagraphs /\ ocrPage.tokens.items # <<>>)
              => textBlocks = BlocksOf(ocrPage.tokens.items, "token")
        /\ ~NoParagraphs => \A k \in DOMAIN textBlocks : textBlocks[k].from = "paragraph"

\* C21, what holds: the tokens are used when the paragraphs field is absent,
\* and never when it is present, empty or not.
C21_TokensWhenFieldAbsent ==
    BlocksExtracted =>
        /\ ~ocrPage.paragraphs.present
              => textBlocks = BlocksOf(ocrPage.tokens.items, "token")
        /\ ocrPage.paragraphs.present
              => textBlocks = BlocksOf(ocrPage.paragraphs.items, "paragraph")

\* C21: the paragraphs list is empty, the page has two tokens with layout, and
\* no text block was built.
C21_EmptyParagraphsNoBlocks ==
    /\ BlocksExtracted
    /\ ocrPage.paragraphs = [present |-> TRUE, items |-> <<>>]
    /\ Len(BlocksOf(ocrPage.tokens.items, "token")) = 2
    /\ textBlocks = <<>>

\* The paragraphs field is absent and the blocks came from the tokens.
C21_TokenFallback ==
    /\ BlocksExtracted
    /\ ~ocrPage.paragraphs.present
    /\ Len(textBlocks) = 2
    /\ \A k \in DOMAIN textBlocks : textBlocks[k].from = "token"

-----------------------------------------------------------------------------
(* Claims about the cached page's arrays *)

\* The call sorted blocks that the page holds in another order
SortedOutOfPageOrder ==
    /\ request # NoRequest
    /\ table.kind = "table"
    /\ table.rows # <<>>
    /\ page # SortedByCentreY(page)

\* C23: a table reconstruction (either variant) leaves the cached page's
\* textBlocks as they were, in order, text and bounding boxes: the blocks are
\* sorted and filtered in arrays of the call's own.
C23_TextBlocksKept == [][page' = page]_vars

C23_Witness == SortedOutOfPageOrder /\ request.variant = "transactions"

C23_WitnessFiltered ==
    SortedOutOfPageOrder /\ request.variant = "table" /\ table.y1 # NoBound

-----------------------------------------------------------------------------
(* Claims about a top anchor in the first row *)

\* The transaction variant was asked for a top anchor that a row followed by a
\* header row holds, and the bottom anchor, when one was asked for, is on the page
AnchorsLocated ==
    /\ Reconstructed
    /\ request.variant = "transactions"
    /\ request.topAnchor # <<>>
    /\ TopAnchorRow >= 1
    /\ request.bottomAnchor # <<>> => BottomAnchorRow >= 1

\* C24 as stated: when the top anchor is accepted and any requested bottom anchor
\* is located, extractFullTableDataForTransactions returns a {headers, rows}
\* result and not null, wherever the anchor row is, the first row included.
C24_Original == AnchorsLocated => table.kind = "table"

\* C24, what holds: a result is returned when the accepted anchor row has a row
\* before it.
C24_TableWhenRowBefore == AnchorsLocated /\ TopAnchorRow >= 2 => table.kind = "table"

\* C24: the anchor row is the first row of the page and null came back.
C24_FirstRowAnchorIsNull ==
    /\ AnchorsLocated
    /\ TopAnchorRow = 1
    /\ table.kind = "null"

C24_LaterAnchorGivesTable ==
    /\ AnchorsLocated
    /\ TopAnchorRow >= 2
    /\ table.kind = "table"

-----------------------------------------------------------------------------
(* Claims about the processor behind a cache entry *)

\* C25 as stated: the entry {hash}-{processorId}.json always holds the document
\* the processor named in its key produced, also when one instance serves
\* successive calls with different processor IDs.
C25_Original ==
    \A k \in Keys : disk[k] # NoDoc => disk[k].by = k[2]

\* C25, what holds: the entry a call stores holds the document of the processor
\* the instance's client was created for.
C25_EntryOfInstanceProcessor ==
    call.how = "ocrStored" =>
        disk[CacheFile(Hash(call.bytes), call.pid)] = OcrDocument(call.bytes, dp.processorName)

\* C25: a call for one processor ID stored, under its own key, the document of
\* the processor an earlier call on the instance had named.
C25_StaleProcessorStored ==
    /\ call.how = "ocrStored"
    /\ dp.processorName # call.pid
    /\ disk[CacheFile(Hash(call.bytes), call.pid)].by # call.pid

\* A call on an instance whose client was created for the same processor stored
\* that processor's document.
C25_OwnProcessorStored ==
    /\ call.how = "ocrStored"
    /\ dp.processorName = call.pid
    /\ disk[CacheFile(Hash(call.bytes), call.pid)].by = call.pid

-----------------------------------------------------------------------------
(* Claims about zero amounts *)

\* C30: every transaction the row loops push, and so every transaction a
\* category of allTransactions receives, has an amount that is neither null nor
\* zero: a row whose amount parses to exactly 0 is dropped like a row without
\* an amount.
C30_NoZeroAmountStored ==
    /\ \A k \in 1..Len(transactions) :
          ~transactions[k].amount.isNull /\ transactions[k].amount.cents # 0
    /\ (rowType # NoRowType /\ ~RowTransaction.amount.isNull /\ RowTransaction.amount.cents = 0)
          => transactions = <<>>

\* C30 witness: a deposits row with a date, a description and the amount 0.00
\* was read as a transaction of amount 0 and nothing was pushed.
C30_Witness ==
    /\ rowType = "DEPOSIT"
    /\ tableRow = << <<"01/02/24">>, <<"ACH">>, <<"0.00">> >>
    /\ IsHeaderRow(tableRow).isTransaction
    /\ RowTransaction.amount = Amount(0)
    /\ transactions = <<>>

\* The same row with a non-zero amount was stored.
C30_NonZeroStored ==
    /\ rowType = "WITHDRAWAL"
    /\ tableRow = << <<"01/02/24">>, <<"ACH">>, <<"12.34">> >>
    /\ Len(transactions) = 1
    /\ transactions[1].amount = Amount(-1234)

-----------------------------------------------------------------------------
(* Claims about concurrent temporary files *)

\* The call has written its temporary file and not yet removed it
HoldsTempFile(h) == handlers[h].pc \in {"written", "read"}

\* C26 as stated: two processUploadedFile calls for URL sources that run
\* concurrently never use the same temporary file path, so each call's OCR is
\* handed the file that call wrote: no other call's write has replaced it and no
\* other call's cleanup has removed it.
C26_Original ==
    /\ \A h1, h2 \in Handlers :
          (h1 # h2 /\ HoldsTempFile(h1) /\ HoldsTempFile(h2))
              => handlers[h1].tempFilePath # handlers[h2].tempFilePath
    /\ \A h \in Handlers : handlers[h].pc \in {"read", "returned"} => handlers[h].given = h

\* C26, what holds: calls whose paths were made in different milliseconds, or
\* for different extensions, use different files and read their own.
C26_DistinctAcrossMilliseconds ==
    \A h1, h2 \in Handlers :
        (/\ h1 # h2
         /\ handlers[h1].pc \in {"read", "returned"}
         /\ handlers[h2].pc # "idle" /\ handlers[h2].pc # "fetched"
         /\ \/ handlers[h1].tempFilePath.stamp # handlers[h2].tempFilePath.stamp
            \/ handlers[h1].tempFilePath.ext # handlers[h2].tempFilePath.ext)
        => handlers[h1].given = h1

\* C26: both calls hold the same path.
C26_SharedPath ==
    /\ HoldsTempFile(1) /\ HoldsTempFile(2)
    /\ handlers[1].tempFilePath = handlers[2].tempFilePath

\* C26: OCR of call 1 was handed the bytes call 2 wrote.
C26_ForeignBytesRead ==
    /\ handlers[1].pc = "read"
    /\ handlers[1].given = 2

\* C26: call 2 removed the file before call 1's OCR read it.
C26_FileRemovedBeforeRead ==
    /\ handlers[1].pc = "read"
    /\ handlers[1].given = NoCaller
    /\ handlers[2].pc = "returned"

\* Calls a millisecond apart: each read its own file.
C26_ApartWitness ==
    /\ handlers[1].pc = "returned" /\ handlers[2].pc = "returned"
    /\ handlers[1].tempFilePath.stamp # handlers[2].tempFilePath.stamp
    /\ handlers[1].given = 1 /\ handlers[2].given = 2

-----------------------------------------------------------------------------
(* Claims about the statement mutations *)

UploadRun(s) == runs[s].mutation = "upload"

Lifecycles == {<<"UPLOADED", "PROCESSING", "COMPLETED">>, <<"UPLOADED", "PROCESSING", "FAILED">>}

\* The statuses written so far are the beginning of a lifecycle
InLifecycleOrder(wrote) ==
    \E l \in Lifecycles : Len(wrote) <= Len(l) /\ wrote = SubSeq(l, 1, Len(wrote))

Terminal(s) == statementRows[s].status \in {"COMPLETED", "FAILED"}

\* The status writes of every upload follow the lifecycle, the id was returned
\* with the first of them, and a FAILED statement has an error message
UploadsInOrder ==
    \A s \in StatementIds :
        /\ UploadRun(s) => runs[s].returned /\ InLifecycleOrder(runs[s].wrote)
        /\ statementRows[s].status = "FAILED" => statementRows[s].errorMessage # ""

C22_ReturnedBeforeProcessing ==
    \E s \in StatementIds :
        /\ UploadRun(s)
        /\ runs[s].returned
        /\ runs[s].pc = "setProcessing"
        /\ statementRows[s].status = "UPLOADED"

C22_CompletedWitness ==
    \E s \in StatementIds :
        /\ UploadRun(s)
        /\ runs[s].pc = "done"
        /\ runs[s].wrote = <<"UPLOADED", "PROCESSING", "COMPLETED">>
        /\ statementRows[s].status = "COMPLETED"

UniqueConstraintError == Thrown("Unique constraint failed")

NoDuplicateAccount ==
    \A j, k \in 1..Len(bankAccounts) : bankAccounts[j] = bankAccounts[k] => j = k

\* C27 as stated: when two statements naming the same account that does not
\* exist yet are processed concurrently, find-or-create leaves exactly one
\* BankAccount row and neither run ends FAILED because of the other.
C27_Original ==
    /\ NoDuplicateAccount
    /\ \A s \in StatementIds : runs[s].error # UniqueConstraintError

\* C27, what holds: there is never a second row for the account.
C27_OneRow == NoDuplicateAccount

\* C27: both runs had complete data naming the account, one row exists, one
\* statement is COMPLETED and the other FAILED on the unique constraint.
C27_LoserFailed ==
    /\ runs[1].pc = "done" /\ runs[2].pc = "done"
    /\ UploadRun(1) /\ UploadRun(2)
    /\ ~Incomplete(runs[1].data) /\ ~Incomplete(runs[2].data)
    /\ Len(bankAccounts) = 1
    /\ statementRows[1].status = "COMPLETED"
    /\ statementRows[2].status = "FAILED"
    /\ statementRows[2].errorMessage = "Unique constraint failed"

\* One after the other, the second run finds the row of the first.
C27_SequentialWitness ==
    /\ runs[1].pc = "done" /\ runs[2].pc = "done"
    /\ UploadRun(1) /\ UploadRun(2)
    /\ Len(bankAccounts) = 1
    /\ statementRows[1].status = "COMPLETED"
    /\ statementRows[2].status = "COMPLETED"

WroteCompleted(s) == \E k \in 1..Len(runs[s].wrote) : runs[s].wrote[k] = "COMPLETED"

\* C28: a run writes COMPLETED only when the parsed result has a bank name, at
\* least one account and both period dates; a document that went to the Chase
\* or the generic parser, which add no accounts, is never written COMPLETED and
\* its run ends with the statement FAILED.
C28_CompletedOnlyWhenComplete ==
    \A s \in StatementIds :
        /\ WroteCompleted(s) => ~Incomplete(runs[s].data)
        /\ runs[s].data.bankName \in {"Chase", "Generic"} =>
              /\ ~WroteCompleted(s)
              /\ runs[s].pc = "done" => statementRows[s].status = "FAILED"

\* C28 witness: a Chase statement whose period was read, so that only the
\* accounts are missing, ended FAILED as incomplete.
C28_Witness ==
    \E s \in StatementIds :
        /\ runs[s].data = WithPeriod(BaseData("Chase"))
        /\ runs[s].pc = "done"
        /\ runs[s].wrote = <<"UPLOADED", "PROCESSING", "FAILED">>
        /\ statementRows[s].status = "FAILED"

C28_GenericWitness ==
    \E s \in StatementIds :
        /\ runs[s].data = BaseData("Generic")
        /\ runs[s].mutation = "process"
        /\ runs[s].pc = "done"
        /\ statementRows[s].status = "FAILED"

CompletedThenFailed(wrote) ==
    \E j, k \in 1..Len(wrote) : j < k /\ wrote[j] = "COMPLETED" /\ wrote[k] = "FAILED"

\* C29 as stated: within one run of the process mutation, a status written as
\* COMPLETED is not later overwritten with FAILED by that run.
C29_Original ==
    \A s \in StatementIds : runs[s].mutation = "process" => ~CompletedThenFailed(runs[s].wrote)

\* C29, what holds: the task of upload writes COMPLETED last.
C29_UploadCompletesLast ==
    \A s \in StatementIds : UploadRun(s) => ~CompletedThenFailed(runs[s].wrote)

\* C29: a process run wrote COMPLETED, lost the creation of the account to the
\* other statement's run and wrote FAILED.
C29_CompletedThenFailed ==
    \E s \in StatementIds :
        /\ runs[s].mutation = "process"
        /\ runs[s].wrote = <<"PROCESSING", "COMPLETED", "FAILED">>
        /\ runs[s].error = UniqueConstraintError
        /\ statementRows[s].status = "FAILED"

C29_ProcessCompleted ==
    \E s \in StatementIds :
        /\ runs[s].mutation = "process"
        /\ runs[s].pc = "done"
        /\ statementRows[s].status = "COMPLETED"

====
